---- MODULE Spec2Model ----
(***************************************************************************)
(* AutoSQL-Judge: the judge engine (src/utils/sql_judge.py) running on the *)
(* dataset connection registry (src/utils/db.py).                          *)
(*                                                                         *)
(* A DataFrame is a record [columns, index, rows]: the column labels, the  *)
(* row labels and the rows, each row a tuple of scalars.  Every column of  *)
(* the frames considered here holds integers, so that the dtype of a column*)
(* is a function of its values and DataFrame.equals never differs on dtype *)
(* alone.                                                                  *)
(***************************************************************************)
EXTENDS Integers, Sequences, FiniteSets, Bags, TLC

VARIABLES
    cache,            \* lru_cache of get_dataset_engine: <<[key, engine]>>, least recently used first
    created,          \* per db_name, the number of engines create_engine has built for it
    pc,               \* position of the judge_sql call
    dataset_db_name,  \* judge_sql argument
    engine,           \* judge_sql local
    df_std,           \* judge_sql local
    df_user,          \* judge_sql local
    df_user_sorted,   \* judge_sql local
    preview_data,     \* judge_sql local
    result,           \* the dict judge_sql returned
    std_returned,     \* history: the frame read_sql returned for standard_sql
    raised,           \* history: the exception this call raised, and in which step
    steps,            \* history: the steps this call has taken, in order
    execLog,          \* history: the statements this call has executed, and on which engine
    callers,          \* per thread, its get_dataset_engine call and the statement it then runs
    recency,          \* history: the cached db_names, in the order their entries were last returned
    reachable,        \* whether the MySQL server answers
    hits,             \* history: the number of cache hits so far
    hpc,              \* position of the request handler that calls the LLM
    route,            \* the handler and the arguments of its request
    q_obj,            \* what generate_sql_question_from_schema or explain_sql_answer returned or raised
    err_msg,          \* handler local: the message of the failure being logged
    llm_calls,        \* rows the request has inserted into llm_calls
    questions,        \* rows the request has inserted into questions
    response,         \* the JSON body and status code the handler returned
    posts,            \* history: the requests the handler has sent to the LLM service
    store,            \* the system store: the tables questions, datasets, records and users
    io,               \* history: the statements and calls of the request being answered, in order
    prior             \* history: the system store when the request being answered arrived

judgeVars == <<pc, dataset_db_name, engine, df_std, df_user, df_user_sorted,
               preview_data, result, std_returned, raised, steps, execLog>>

registryVars == <<callers, recency, reachable, hits>>

llmVars == <<hpc, route, q_obj, err_msg, llm_calls, questions, response, posts>>

examVars == <<store, io, prior>>

nonJudgeVars == <<registryVars, llmVars, examVars>>

vars == <<cache, created, judgeVars, nonJudgeVars>>

----------------------------------------------------------------------------
(* Bounds of the inputs. *)

MaxRows == 2        \* rows of a result set
MaxLongRows == 6    \* rows of a long single-column result set (longer than the preview)

MaxDatasets == 9    \* datasets whose engine is asked for: one more than the cache holds
MaxHits == 1        \* cache hits of a run of get_dataset_engine calls
MaxBuilt == 11      \* engines built in a run
MaxPad == 1         \* blanks before and after a text
MaxRecords == 2     \* rows of the table records

Values == {0, 1}

ColumnLists == {<<"id">>, <<"score">>, <<"id", "score">>, <<"id", "id">>}

DbNames == {"ds_student_scores", "sql_exam_sys"}

DriverErrors == {"(1064) You have an error in your SQL syntax",
                 "(2003) Can't connect to MySQL server"}

----------------------------------------------------------------------------
(* Program constants. *)

PreviewRows == 5
CacheMaxSize == 8

EXAM_DB_NAME == "sql_exam_sys"

MsgSuccess == "answer correct"
MsgFail == "results differ"
MsgNotUnique == "The column label is not unique."

None == [none |-> TRUE]

----------------------------------------------------------------------------
(* src/utils/db.py *)

\* An engine is identified by its database and by the how-manieth engine built
\* for that database it is.
exam_engine == [id |-> 0, user |-> "MYSQL_ADMIN_USER", db |-> EXAM_DB_NAME]

get_exam_engine == exam_engine

\* Mutant: the registry builds its engines from the administrator's URL.
create_engine_Admin(db_name, n) == [id |-> n, user |-> "MYSQL_ADMIN_USER", db |-> db_name]

create_engine(db_name, n) == [id |-> n, user |-> "MYSQL_READONLY_USER", db |-> db_name]

Keys(c) == {c[i].key : i \in 1..Len(c)}

Lookup(c, k) == (CHOOSE i \in 1..Len(c) : c[i].key = k)

Without(c, i) == SubSeq(c, 1, i - 1) \o SubSeq(c, i + 1, Len(c))

\* functools.lru_cache(maxsize=8): a hit moves the entry to the most recently
\* used end; a miss calls the function, stores the result and, when the cache
\* is full, drops the least recently used entry.
CacheAfter(c, n, db_name) ==
    IF db_name \in Keys(c)
    THEN Without(c, Lookup(c, db_name)) \o <<c[Lookup(c, db_name)]>>
    ELSE LET e == [key |-> db_name, engine |-> create_engine(db_name, n[db_name] + 1)]
         IN  IF Len(c) >= CacheMaxSize THEN Tail(c) \o <<e>> ELSE c \o <<e>>

get_dataset_engine(c, n, db_name) ==
    LET c2 == CacheAfter(c, n, db_name) IN c2[Len(c2)].engine

CreatedAfter(c, n, db_name) ==
    IF db_name \in Keys(c) THEN n ELSE [n EXCEPT ![db_name] = @ + 1]

\* The wrapper lru_cache puts around get_dataset_engine works in two sections
\* that other threads cannot interleave with; the function body runs between
\* them and other threads can run meanwhile.
\* First section, on a hit: the entry becomes the most recently used one.
lru_hit(c, k) == Without(c, Lookup(c, k)) \o <<c[Lookup(c, k)]>>

\* Mutant: the result is never stored.
lru_store_Never(c, k, e) == c

\* Mutant: a full cache drops its most recently used entry.
lru_store_EvictNewest(c, k, e) ==
    IF k \in Keys(c) THEN c
    ELSE IF Len(c) >= CacheMaxSize
         THEN SubSeq(c, 1, Len(c) - 1) \o <<[key |-> k, engine |-> e]>>
         ELSE c \o <<[key |-> k, engine |-> e]>>

\* Second section, after the body returned e for key k: when another thread
\* stored k meanwhile the cache stays as it is; otherwise e is stored, in place
\* of the least recently used entry when the cache is full.
lru_store(c, k, e) ==
    IF k \in Keys(c) THEN c
    ELSE IF Len(c) >= CacheMaxSize
         THEN Tail(c) \o <<[key |-> k, engine |-> e]>>
         ELSE c \o <<[key |-> k, engine |-> e]>>

\* The threads of the web server that ask for dataset engines.
Threads == {"t1", "t2"}

\* Dataset db_names, numbered: db_name n stands for the n-th dataset database.
DatasetNames == 1..MaxDatasets

OperationalError == "(2003) Can't connect to MySQL server"

IdleCaller == [pc |-> "Idle", db_name |-> None, made |-> None, got |-> None,
               down |-> FALSE, evicted |-> FALSE, prev |-> None, outcome |-> None]

\* No request that calls the LLM has been handled.
LLMIdle ==
    /\ hpc = "Idle"
    /\ route = None
    /\ q_obj = None
    /\ err_msg = None
    /\ llm_calls = <<>>
    /\ questions = <<>>
    /\ response = None
    /\ posts = <<>>

\* No request of the exam has been answered: the system store is not looked at.
ExamIdle ==
    /\ store = None
    /\ io = <<>>
    /\ prior = None

\* The registry before any get_dataset_engine call.
RegistryIdle ==
    /\ callers = [t \in Threads |-> IdleCaller]
    /\ recency = <<>>
    /\ reachable = TRUE
    /\ hits = 0

----------------------------------------------------------------------------
(* DataFrames, as pandas builds and transforms them in judge_sql. *)

Min(a, b) == IF a <= b THEN a ELSE b

RangeIndex(n) == [i \in 1..n |-> i - 1]

Frame(cols, rows) == [columns |-> cols, index |-> RangeIndex(Len(rows)), rows |-> rows]

SeqsUpTo(S, n) == UNION {[1..k -> S] : k \in 0..n}

SmallFrames ==
    UNION {{Frame(c, r) : r \in SeqsUpTo([1..Len(c) -> Values], MaxRows)} : c \in ColumnLists}

\* Single-column results longer than MaxRows: all 0 except at most one 1.
LongFrames ==
    UNION {{Frame(<<"id">>, [i \in 1..n |-> <<IF i = k THEN 1 ELSE 0>>]) : k \in 0..n}
           : n \in (MaxRows + 1)..MaxLongRows}

\* What pd.read_sql can return for a statement that executes.
ResultSets == SmallFrames \cup LongFrames

Fault(m) == [raised |-> m]

IsFault(o) == "raised" \in DOMAIN o

\* pd.read_sql(sql, engine): the frame of the statement's rows, or the
\* driver's exception.
ReadSqlOutcomes == ResultSets \cup {Fault(m) : m \in DriverErrors}

Unique(cols) == \A i, j \in 1..Len(cols) : cols[i] = cols[j] => i = j

\* Lexicographic order of two rows over the full column tuple.
RowLess(r1, r2) ==
    \E i \in 1..Len(r1) :
        /\ r1[i] < r2[i]
        /\ \A j \in 1..(i - 1) : r1[j] = r2[j]

\* The number of rows that come before row i in ascending order (of rows
\* that tie, the one returned first comes first).
RowsBefore(rows, i) ==
    Cardinality({j \in 1..Len(rows) :
                    \/ RowLess(rows[j], rows[i])
                    \/ (rows[j] = rows[i] /\ j < i)})

\* The position of the row that comes k-th in ascending order of the rows.
SortedPosition(rows, k) == CHOOSE i \in 1..Len(rows) : RowsBefore(rows, i) = k - 1

\* df.sort_values(by=df.columns.tolist()): raises ValueError when a label of
\* `by` names more than one column.
SortRaises(df) == ~Unique(df.columns)

sort_values(df) ==
    IF SortRaises(df) THEN Fault(MsgNotUnique)
    ELSE [columns |-> df.columns,
          index   |-> [k \in 1..Len(df.rows) |-> df.index[SortedPosition(df.rows, k)]],
          rows    |-> [k \in 1..Len(df.rows) |-> df.rows[SortedPosition(df.rows, k)]]]

reset_index(df) == [df EXCEPT !.index = RangeIndex(Len(df.rows))]

\* Mutant: reset_index(drop=True) left out.
Normalized_NoReset(df) == sort_values(df)

\* df.sort_values(by=df.columns.tolist()).reset_index(drop=True)
Normalized(df) ==
    IF SortRaises(df) THEN sort_values(df) ELSE reset_index(sort_values(df))

\* Mutant: only the axes are compared.
equals_AxesOnly(a, b) ==
    /\ a.columns = b.columns
    /\ a.index = b.index

\* Mutant: the column labels are not compared.
equals_IgnoreColumns(a, b) ==
    /\ a.index = b.index
    /\ a.rows = b.rows

\* DataFrame.equals: both axes and all values.
equals(a, b) ==
    /\ a.columns = b.columns
    /\ a.index = b.index
    /\ a.rows = b.rows

\* df.head(5).astype(str).values.tolist()
HeadAsStr(df) ==
    [i \in 1..Min(PreviewRows, Len(df.rows)) |->
        [j \in 1..Len(df.rows[i]) |-> ToString(df.rows[i][j])]]

\* Mutant: the preview is built from the sorted frame.
Preview_OfSorted(df) ==
    [columns    |-> df.columns,
     rows       |-> HeadAsStr(Normalized(df)),
     total_rows |-> Len(df.rows)]

Preview(df) ==
    [columns    |-> df.columns,
     rows       |-> HeadAsStr(df),
     total_rows |-> Len(df.rows)]

ErrorResult(m) == [status |-> "error", msg |-> m]

\* Mutant: the exception is not caught.
Handled_Reraise(m) == [pc |-> "Propagated", result |-> None]

\* except Exception as exc: return {"status": "error", "msg": str(exc)}
Handled(m) == [pc |-> "Returned", result |-> ErrorResult(m)]

Raise(step, m) == [at |-> step, msg |-> m]

\* Mutant: a mismatch is reported with the error status.
VerdictResult_FailAsError(eq, pv) ==
    IF eq THEN [status |-> "success", msg |-> MsgSuccess, preview |-> pv]
    ELSE [status |-> "error", msg |-> MsgFail]

VerdictResult(eq, pv) ==
    IF eq THEN [status |-> "success", msg |-> MsgSuccess, preview |-> pv]
    ELSE [status |-> "fail", msg |-> MsgFail, preview |-> pv]

----------------------------------------------------------------------------
(* State machine of one judge_sql call after another. *)

Init ==
    /\ cache = <<>>
    /\ created = [db \in DbNames |-> 0]
    /\ pc = "Idle"
    /\ dataset_db_name = None
    /\ engine = None
    /\ df_std = None
    /\ df_user = None
    /\ df_user_sorted = None
    /\ preview_data = None
    /\ result = None
    /\ std_returned = None
    /\ raised = None
    /\ steps = <<>>
    /\ execLog = <<>>
    /\ RegistryIdle
    /\ LLMIdle
    /\ ExamIdle

\* api_judge_submit calls judge_sql with the db_name of the question's dataset.
Call ==
    /\ pc \in {"Idle", "Returned"}
    /\ \E db \in DbNames : dataset_db_name' = db
    /\ pc' = "Init"
    /\ engine' = None
    /\ df_std' = None
    /\ df_user' = None
    /\ df_user_sorted' = None
    /\ preview_data' = None
    /\ result' = None
    /\ std_returned' = None
    /\ raised' = None
    /\ steps' = <<>>
    /\ execLog' = <<>>
    /\ UNCHANGED <<cache, created>>
    /\ UNCHANGED nonJudgeVars

\* engine = get_dataset_engine(dataset_db_name)
Resolve ==
    /\ pc = "Init"
    /\ engine' = get_dataset_engine(cache, created, dataset_db_name)
    /\ cache' = CacheAfter(cache, created, dataset_db_name)
    /\ created' = CreatedAfter(cache, created, dataset_db_name)
    /\ steps' = Append(steps, "resolve")
    /\ pc' = "ExecutingStandard"
    /\ UNCHANGED <<dataset_db_name, df_std, df_user, df_user_sorted, preview_data,
                   result, std_returned, raised, execLog>>
    /\ UNCHANGED nonJudgeVars

\* Mutant: a fault of the standard statement is swallowed and the call goes
\* on with an empty frame.
ExecuteStandard_FaultContinues ==
    /\ pc = "ExecutingStandard"
    /\ steps' = Append(steps, "execute_standard")
    /\ execLog' = Append(execLog, [sql |-> "standard_sql", engine |-> engine])
    /\ \E o \in ReadSqlOutcomes :
          IF IsFault(o)
          THEN /\ raised' = Raise("execute_standard", o.raised)
               /\ df_std' = Frame(<<"id">>, <<>>)
               /\ std_returned' = Frame(<<"id">>, <<>>)
               /\ pc' = "ExecutingUser"
               /\ UNCHANGED result
          ELSE /\ df_std' = o
               /\ std_returned' = o
               /\ pc' = "ExecutingUser"
               /\ UNCHANGED <<result, raised>>
    /\ UNCHANGED <<cache, created, dataset_db_name, engine, df_user, df_user_sorted,
                   preview_data>>
    /\ UNCHANGED nonJudgeVars

\* Mutant: a fault of the standard statement is retried.
ExecuteStandard_Retry ==
    /\ pc = "ExecutingStandard"
    /\ steps' = Append(steps, "execute_standard")
    /\ execLog' = Append(execLog, [sql |-> "standard_sql", engine |-> engine])
    /\ \E o \in ReadSqlOutcomes :
          IF IsFault(o)
          THEN /\ pc' = "ExecutingStandard"
               /\ UNCHANGED <<df_std, std_returned, result, raised>>
          ELSE /\ df_std' = o
               /\ std_returned' = o
               /\ pc' = "ExecutingUser"
               /\ UNCHANGED <<result, raised>>
    /\ UNCHANGED <<cache, created, dataset_db_name, engine, df_user, df_user_sorted,
                   preview_data>>
    /\ UNCHANGED nonJudgeVars

\* df_std = pd.read_sql(standard_sql, engine)
ExecuteStandard ==
    /\ pc = "ExecutingStandard"
    /\ steps' = Append(steps, "execute_standard")
    /\ execLog' = Append(execLog, [sql |-> "standard_sql", engine |-> engine])
    /\ \E o \in ReadSqlOutcomes :
          IF IsFault(o)
          THEN /\ raised' = Raise("execute_standard", o.raised)
               /\ result' = Handled(o.raised).result
               /\ pc' = Handled(o.raised).pc
               /\ UNCHANGED <<df_std, std_returned>>
          ELSE /\ df_std' = o
               /\ std_returned' = o
               /\ pc' = "ExecutingUser"
               /\ UNCHANGED <<result, raised>>
    /\ UNCHANGED <<cache, created, dataset_db_name, engine, df_user, df_user_sorted,
                   preview_data>>
    /\ UNCHANGED nonJudgeVars

\* Mutant: a fault of the learner's statement is swallowed and the call goes
\* on with an empty frame.
ExecuteUser_FaultContinues ==
    /\ pc = "ExecutingUser"
    /\ steps' = Append(steps, "execute_user")
    /\ execLog' = Append(execLog, [sql |-> "user_sql", engine |-> engine])
    /\ \E o \in ReadSqlOutcomes :
          IF IsFault(o)
          THEN /\ raised' = Raise("execute_user", o.raised)
               /\ df_user' = Frame(<<"id">>, <<>>)
               /\ pc' = "Normalizing"
               /\ UNCHANGED result
          ELSE /\ df_user' = o
               /\ pc' = "Normalizing"
               /\ UNCHANGED <<result, raised>>
    /\ UNCHANGED <<cache, created, dataset_db_name, engine, df_std, df_user_sorted,
                   preview_data, std_returned>>
    /\ UNCHANGED nonJudgeVars

\* df_user = pd.read_sql(user_sql, engine)
ExecuteUser ==
    /\ pc = "ExecutingUser"
    /\ steps' = Append(steps, "execute_user")
    /\ execLog' = Append(execLog, [sql |-> "user_sql", engine |-> engine])
    /\ \E o \in ReadSqlOutcomes :
          IF IsFault(o)
          THEN /\ raised' = Raise("execute_user", o.raised)
               /\ result' = Handled(o.raised).result
               /\ pc' = Handled(o.raised).pc
               /\ UNCHANGED df_user
          ELSE /\ df_user' = o
               /\ pc' = "Normalizing"
               /\ UNCHANGED <<result, raised>>
    /\ UNCHANGED <<cache, created, dataset_db_name, engine, df_std, df_user_sorted,
                   preview_data, std_returned>>
    /\ UNCHANGED nonJudgeVars

\* The two sort_values(...).reset_index(drop=True) lines and preview_data.
Normalize ==
    /\ pc = "Normalizing"
    /\ steps' = Append(steps, "normalize")
    /\ IF SortRaises(df_std)
       THEN /\ raised' = Raise("normalize", Normalized(df_std).raised)
            /\ result' = Handled(Normalized(df_std).raised).result
            /\ pc' = Handled(Normalized(df_std).raised).pc
            /\ UNCHANGED <<df_std, df_user_sorted, preview_data>>
       ELSE IF SortRaises(df_user)
       THEN /\ df_std' = Normalized(df_std)
            /\ raised' = Raise("normalize", Normalized(df_user).raised)
            /\ result' = Handled(Normalized(df_user).raised).result
            /\ pc' = Handled(Normalized(df_user).raised).pc
            /\ UNCHANGED <<df_user_sorted, preview_data>>
       ELSE /\ df_std' = Normalized(df_std)
            /\ df_user_sorted' = Normalized(df_user)
            /\ preview_data' = Preview(df_user)
            /\ pc' = "Comparing"
            /\ UNCHANGED <<result, raised>>
    /\ UNCHANGED <<cache, created, dataset_db_name, engine, df_user, std_returned,
                   execLog>>
    /\ UNCHANGED nonJudgeVars

\* if df_std.equals(df_user_sorted): return success; return fail
Compare ==
    /\ pc = "Comparing"
    /\ steps' = Append(steps, "compare")
    /\ result' = VerdictResult(equals(df_std, df_user_sorted), preview_data)
    /\ pc' = "Returned"
    /\ UNCHANGED <<cache, created, dataset_db_name, engine, df_std, df_user,
                   df_user_sorted, preview_data, std_returned, raised, execLog>>
    /\ UNCHANGED nonJudgeVars

Next == Call \/ Resolve \/ ExecuteStandard \/ ExecuteUser \/ Normalize \/ Compare

Spec == Init /\ [][Next]_vars

----------------------------------------------------------------------------
(* State machine of the threads that call get_dataset_engine and then run a *)
(* statement on the engine they got, as judge_sql does in its first lines.  *)

JudgeIdle ==
    /\ pc = "Idle"
    /\ dataset_db_name = None
    /\ engine = None
    /\ df_std = None
    /\ df_user = None
    /\ df_user_sorted = None
    /\ preview_data = None
    /\ result = None
    /\ std_returned = None
    /\ raised = None
    /\ steps = <<>>
    /\ execLog = <<>>

InitRegistry ==
    /\ cache = <<>>
    /\ created = [db \in DatasetNames |-> 0]
    /\ JudgeIdle
    /\ RegistryIdle
    /\ LLMIdle
    /\ ExamIdle

RECURSIVE BuiltUpTo(_)
\* The number of engines built for the db_names 1..n.
BuiltUpTo(n) == IF n = 0 THEN 0 ELSE created[n] + BuiltUpTo(n - 1)

Dropped(s, K) == SelectSeq(s, LAMBDA x : x \notin K)

Touch(s, k) == Dropped(s, {k}) \o <<k>>

\* The db_names a call may name: db_names are interchangeable, so the first
\* call for a further dataset names the next number.
NextNames ==
    {db \in DatasetNames :
        \A d \in 1..(db - 1) :
            \/ created[d] > 0
            \/ \E t \in Threads : callers[t].pc # "Idle" /\ callers[t].db_name = d}

\* What the caller remembers of the call it made before, when that call was
\* for the same db_name.
Before(me, db) ==
    IF me.pc = "Idle" \/ me.db_name # db THEN None
    ELSE [db_name |-> me.db_name, got |-> me.got, evicted |-> me.evicted,
          created |-> created[me.db_name], outcome |-> me.outcome]

\* get_dataset_engine(db) is called: the first section of the wrapper. A hit
\* returns the cached engine at once, a miss goes on to the function body.
Enter(t, db) ==
    /\ callers[t].pc \in {"Idle", "Returned", "Queried"}
    /\ db \in NextNames
    /\ IF db \in Keys(cache)
       THEN /\ hits < MaxHits
            /\ cache' = lru_hit(cache, db)
            /\ recency' = Touch(recency, db)
            /\ hits' = hits + 1
            /\ callers' = [callers EXCEPT ![t] =
                   [pc |-> "Returned", db_name |-> db, made |-> None,
                    got |-> lru_hit(cache, db)[Len(cache)].engine,
                    down |-> FALSE, evicted |-> FALSE,
                    prev |-> Before(callers[t], db), outcome |-> None]]
       ELSE /\ BuiltUpTo(MaxDatasets) < MaxBuilt
            /\ callers' = [callers EXCEPT ![t] =
                   [pc |-> "Creating", db_name |-> db, made |-> None, got |-> None,
                    down |-> ~reachable, evicted |-> FALSE,
                    prev |-> Before(callers[t], db), outcome |-> None]]
            /\ UNCHANGED <<cache, recency, hits>>
    /\ UNCHANGED <<created, reachable, judgeVars, llmVars, examVars>>

\* Mutant: the body connects, and raises when the server does not answer.
Body_Connects(t) ==
    /\ callers[t].pc = "Creating"
    /\ IF reachable
       THEN /\ callers' = [callers EXCEPT ![t].pc = "Storing",
                                          ![t].made = create_engine(callers[t].db_name,
                                                          created[callers[t].db_name] + 1)]
            /\ created' = [created EXCEPT ![callers[t].db_name] = @ + 1]
       ELSE /\ callers' = [callers EXCEPT ![t].pc = "Returned",
                                          ![t].got = Fault(OperationalError)]
            /\ UNCHANGED created
    /\ UNCHANGED <<cache, recency, reachable, hits, judgeVars, llmVars, examVars>>

\* The body of get_dataset_engine: it builds the URL and the engine, and does
\* not connect.
Body(t) ==
    /\ callers[t].pc = "Creating"
    /\ callers' = [callers EXCEPT ![t].pc = "Storing",
                                  ![t].made = create_engine(callers[t].db_name,
                                                  created[callers[t].db_name] + 1),
                                  ![t].down = callers[t].down /\ ~reachable]
    /\ created' = [created EXCEPT ![callers[t].db_name] = @ + 1]
    /\ UNCHANGED <<cache, recency, reachable, hits, judgeVars, llmVars, examVars>>

\* The second section of the wrapper: the engine the body built is returned,
\* stored or not.
Exit(t) ==
    /\ callers[t].pc = "Storing"
    /\ LET me == callers[t]
           c2 == lru_store(cache, me.db_name, me.made)
           lost == Keys(cache) \ Keys(c2)
       IN  /\ cache' = c2
           /\ recency' = IF c2 = cache THEN recency
                         ELSE Touch(Dropped(recency, lost), me.db_name)
           /\ callers' = [u \in Threads |->
                  IF u = t
                  THEN [me EXCEPT !.pc = "Returned", !.got = me.made,
                                  !.down = me.down /\ ~reachable]
                  ELSE IF callers[u].pc # "Idle" /\ callers[u].db_name \in lost
                       THEN [callers[u] EXCEPT !.evicted = TRUE]
                       ELSE callers[u]]
    /\ UNCHANGED <<created, reachable, hits, judgeVars, llmVars, examVars>>

\* The caller runs a statement on the engine it got: the engine connects now.
Query(t) ==
    /\ callers[t].pc = "Returned"
    /\ callers' = [callers EXCEPT ![t].pc = "Queried",
                                  ![t].outcome = IF reachable THEN Frame(<<"id">>, <<>>)
                                                 ELSE Fault(OperationalError)]
    /\ UNCHANGED <<cache, created, recency, reachable, hits, judgeVars, llmVars, examVars>>

\* The MySQL server goes away or comes back.
StoreChanges ==
    /\ reachable' = ~reachable
    /\ UNCHANGED <<cache, created, callers, recency, hits, judgeVars, llmVars, examVars>>

\* One caller, one call after the other.
NextRegistry ==
    \/ \E db \in DatasetNames : Enter("t1", db)
    \/ Body("t1")
    \/ Exit("t1")
    \/ Query("t1")
    \/ StoreChanges

SpecRegistry == InitRegistry /\ [][NextRegistry]_vars

\* The registry after one caller has asked for all but one of the datasets
\* the cache has room for, one after the other.
InitRace ==
    /\ cache = [i \in 1..(CacheMaxSize - 1) |-> [key |-> i, engine |-> create_engine(i, 1)]]
    /\ created = [db \in DatasetNames |-> IF db < CacheMaxSize THEN 1 ELSE 0]
    /\ JudgeIdle
    /\ callers = [t \in Threads |-> IdleCaller]
    /\ recency = [i \in 1..(CacheMaxSize - 1) |-> i]
    /\ reachable = TRUE
    /\ hits = 0
    /\ LLMIdle
    /\ ExamIdle

\* The datasets the threads ask for: the last one cached and the ones not yet
\* asked for.
RaceNames == (CacheMaxSize - 1)..MaxDatasets

\* The threads of the server, interleaved.
NextRace ==
    \/ \E t \in Threads, db \in RaceNames : Enter(t, db)
    \/ \E t \in Threads : Body(t)
    \/ \E t \in Threads : Exit(t)

SpecRace == InitRace /\ [][NextRace]_vars

----------------------------------------------------------------------------
(* Vocabulary of the properties. *)

Status == IF "status" \in DOMAIN result THEN result.status ELSE "none"

RaisedAt == IF "at" \in DOMAIN raised THEN raised.at ELSE "none"

InCall == pc \in {"Init", "ExecutingStandard", "ExecutingUser", "Normalizing", "Comparing"}

\* Both statements of the finished call executed without a fault.
BothExecuted ==
    /\ pc = "Returned"
    /\ std_returned # None
    /\ df_user # None

Count(rows, r) == Cardinality({i \in 1..Len(rows) : rows[i] = r})

SameMultiset(r1, r2) ==
    /\ Len(r1) = Len(r2)
    /\ \A i \in 1..Len(r1) : Count(r1, r1[i]) = Count(r2, r1[i])

IsPrefix(s, t) == Len(s) <= Len(t) /\ SubSeq(t, 1, Len(s)) = s

StepOrder == <<"resolve", "execute_standard", "execute_user", "normalize", "compare">>

Executions(q) == Cardinality({i \in 1..Len(execLog) : execLog[i].sql = q})

CachedEngines == {cache[i].engine : i \in 1..Len(cache)}

\* The step the call is at can be taken.
CanStep ==
    CASE pc = "Init" -> ENABLED Resolve
      [] pc = "ExecutingStandard" -> ENABLED ExecuteStandard
      [] pc = "ExecutingUser" -> ENABLED ExecuteUser
      [] pc = "Normalizing" -> ENABLED Normalize
      [] pc = "Comparing" -> ENABLED Compare
      [] OTHER -> FALSE

\* Text of a scalar, written out independently of the preview's rendering.
Text(v) == CASE v = 0 -> "0" [] v = 1 -> "1" [] v = 2 -> "2" [] OTHER -> "?"

----------------------------------------------------------------------------
(* Properties. *)

\* C1: when executing standard_sql raises, judge_sql returns the error status
\* and user_sql is never executed in that call.
C1_StandardFaultSkipsUser ==
    RaisedAt = "execute_standard" =>
        /\ pc = "Returned"
        /\ Status = "error"
        /\ Executions("user_sql") = 0
        /\ df_user = None

C1_Witness ==
    /\ pc = "Returned"
    /\ RaisedAt = "execute_standard"
    /\ Executions("standard_sql") = 1

\* Neither result of the finished call repeats a column label, so that both
\* can be sorted.
Sortable == Unique(std_returned.columns) /\ Unique(df_user.columns)

\* Both results of the finished call have rows.
NonEmpty == Len(std_returned.rows) > 0 /\ Len(df_user.rows) > 0

\* C2 (as stated, for results that have rows and can be sorted): two results
\* that are identical multisets of rows are judged success.
C2_SameRowsPass ==
    (BothExecuted /\ NonEmpty /\ Sortable /\ SameMultiset(std_returned.rows, df_user.rows))
        => Status = "success"

\* C2 (amended): two results with identical column labels, none repeated,
\* and identical multisets of rows are judged success, in whatever order the
\* rows were returned.
C2_SameRowsSameLabelsPass ==
    (/\ BothExecuted
     /\ std_returned.columns = df_user.columns
     /\ Unique(df_user.columns)
     /\ SameMultiset(std_returned.rows, df_user.rows)) => Status = "success"

C2_Witness ==
    /\ BothExecuted
    /\ std_returned.columns = df_user.columns
    /\ Len(df_user.columns) = 2
    /\ SameMultiset(std_returned.rows, df_user.rows)
    /\ std_returned.rows # df_user.rows
    /\ Status = "success"

\* The two results of the finished call differ in a row (value or
\* multiplicity), in the row count or in the column count.
ResultsDiffer ==
    \/ ~SameMultiset(std_returned.rows, df_user.rows)
    \/ Len(std_returned.columns) # Len(df_user.columns)

\* C3 (as stated, for results that have rows): two results that differ in a
\* row, in the row count or in the column count are judged fail.
C3_DifferentFail ==
    (BothExecuted /\ NonEmpty /\ ResultsDiffer) => Status = "fail"

\* C3 (amended): two results that differ are never judged success; they are
\* judged fail when neither repeats a column label, and error (raised by the
\* sort) when one does.
C3_DifferentNeverPass ==
    (BothExecuted /\ ResultsDiffer) =>
        /\ Status # "success"
        /\ Sortable => Status = "fail"
        /\ ~Sortable => Status = "error"

C3_Witness ==
    /\ BothExecuted
    /\ std_returned.columns = df_user.columns
    /\ Len(std_returned.rows) = Len(df_user.rows)
    /\ ~SameMultiset(std_returned.rows, df_user.rows)
    /\ Status = "fail"

\* C4 (as stated): the error status comes from a fault of one of the two
\* executions only, and no comparison was attempted.
C4_ErrorOnlyFromExecution ==
    Status = "error" =>
        /\ RaisedAt \in {"execute_standard", "execute_user"}
        /\ \A i \in 1..Len(steps) : steps[i] # "compare"

\* C4 (amended): the error status comes from a fault of one of the two
\* executions or of the sort that normalizes a result (a repeated column
\* label); never from resolving the connection or from the comparison, which
\* was not attempted.
C4_ErrorFromExecutionOrSort ==
    Status = "error" =>
        /\ RaisedAt \in {"execute_standard", "execute_user", "normalize"}
        /\ result.msg = raised.msg
        /\ RaisedAt = "normalize" =>
              (~Unique(std_returned.columns) \/ ~Unique(df_user.columns))
        /\ RaisedAt # "normalize" => raised.msg \in DriverErrors
        /\ \A i \in 1..Len(steps) : steps[i] # "compare"

C4_Witness ==
    /\ Status = "error"
    /\ RaisedAt = "normalize"
    /\ Unique(std_returned.columns)

\* C5: the steps of a call happen in the order resolve, execute standard_sql,
\* execute user_sql, (normalize,) compare; normalizing and comparing start
\* only after both executions succeeded; each execution step can end the
\* call with the error status.
C5_StepOrder ==
    /\ IsPrefix(steps, StepOrder)
    /\ pc \in {"Normalizing", "Comparing"} =>
          /\ raised = None
          /\ std_returned \in ResultSets
          /\ df_user \in ResultSets
          /\ execLog = <<[sql |-> "standard_sql", engine |-> engine],
                         [sql |-> "user_sql", engine |-> engine]>>
    /\ pc = "ExecutingStandard" =>
          /\ steps = <<"resolve">>
          /\ ENABLED (ExecuteStandard /\ pc' = "Returned" /\ result'.status = "error")
    /\ pc = "ExecutingUser" =>
          /\ steps = <<"resolve", "execute_standard">>
          /\ ENABLED (ExecuteUser /\ pc' = "Returned" /\ result'.status = "error")

C5_Witness ==
    /\ pc = "Returned"
    /\ steps = StepOrder
    /\ Status = "fail"

\* Same column count and the same rows, under different column labels.
RenamedColumns ==
    /\ Len(std_returned.columns) = Len(df_user.columns)
    /\ std_returned.columns # df_user.columns
    /\ SameMultiset(std_returned.rows, df_user.rows)

\* C6 (as stated, for results that have rows and can be sorted): column
\* labels are not compared: the same values under different labels are judged
\* success.
C6_LabelsIgnored ==
    (BothExecuted /\ NonEmpty /\ Sortable /\ RenamedColumns) => Status = "success"

\* C6 (amended): column labels are compared: the same values under different
\* labels are never judged success; they are judged fail when neither result
\* repeats a label, and error when one does.
C6_LabelsCompared ==
    (BothExecuted /\ RenamedColumns) =>
        IF Sortable THEN Status = "fail" ELSE Status = "error"

C6_Witness ==
    /\ BothExecuted
    /\ RenamedColumns
    /\ std_returned.rows = df_user.rows
    /\ Len(df_user.rows) > 0
    /\ Status = "fail"

\* C7: a success or fail result carries the preview of the learner's frame as
\* returned: the first min(5, n) rows in returned order with every value as
\* text, the learner's column labels, and total_rows = n; an error result
\* carries no preview.
C7_PreviewOfReturnedRows ==
    /\ Status \in {"success", "fail"} =>
          /\ DOMAIN result = {"status", "msg", "preview"}
          /\ result.preview.columns = df_user.columns
          /\ result.preview.total_rows = Len(df_user.rows)
          /\ Len(result.preview.rows) = Min(5, Len(df_user.rows))
          /\ \A i \in 1..Len(result.preview.rows) :
                /\ Len(result.preview.rows[i]) = Len(df_user.columns)
                /\ \A j \in 1..Len(df_user.columns) :
                      result.preview.rows[i][j] = Text(df_user.rows[i][j])
    /\ Status = "error" => DOMAIN result = {"status", "msg"}

C7_Witness ==
    /\ Status = "success"
    /\ Len(df_user.rows) > 5
    /\ df_user.rows # df_user_sorted.rows
    /\ Len(result.preview.rows) = 5

\* C8: a call never leaves judge_sql by an exception and never gets stuck; it
\* returns one result, whose status is success, fail or error; a fault of
\* either execution gives the error status with the driver's message.
C8_AlwaysAVerdict ==
    /\ pc # "Propagated"
    /\ InCall => (CanStep /\ result = None)
    /\ Len(steps) <= Len(StepOrder)
    /\ pc = "Returned" => Status \in {"success", "fail", "error"}
    /\ RaisedAt \in {"execute_standard", "execute_user"} =>
          /\ pc = "Returned"
          /\ raised.msg \in DriverErrors
          /\ result = [status |-> "error", msg |-> raised.msg]

C8_Witness ==
    /\ pc = "Returned"
    /\ RaisedAt = "execute_user"
    /\ result.msg = "(1064) You have an error in your SQL syntax"

\* C9: a call executes standard_sql at most once and user_sql at most once,
\* and executes nothing after a fault.
C9_NoRetry ==
    /\ Executions("standard_sql") <= 1
    /\ Executions("user_sql") <= 1
    /\ Len(execLog) = Executions("standard_sql") + Executions("user_sql")
    /\ raised # None => pc = "Returned"
    /\ RaisedAt = "execute_standard" => Len(execLog) = 1
    /\ RaisedAt = "execute_user" => Len(execLog) = 2

C9_Witness ==
    /\ pc = "Returned"
    /\ RaisedAt = "execute_user"
    /\ Executions("standard_sql") = 1
    /\ Executions("user_sql") = 1

\* C10: the registry never holds or returns the system-of-record engine or an
\* engine with its credentials, and user_sql is executed only on an engine of
\* the registry.
C10_RegistryIsolated ==
    /\ \A e \in CachedEngines :
          /\ e # get_exam_engine
          /\ e.id # get_exam_engine.id
          /\ e.user # get_exam_engine.user
    /\ engine # None => (engine \in CachedEngines /\ engine.db = dataset_db_name)
    /\ \A i \in 1..Len(execLog) :
          /\ execLog[i].engine \in CachedEngines
          /\ execLog[i].engine # get_exam_engine
          /\ execLog[i].engine.user = "MYSQL_READONLY_USER"

C10_Witness ==
    /\ Executions("user_sql") = 1
    /\ dataset_db_name = EXAM_DB_NAME
    /\ engine.db = get_exam_engine.db
    /\ Len(cache) = 2

----------------------------------------------------------------------------
(* The connection registry under one caller (SpecRegistry) and under        *)
(* interleaved threads (SpecRace).                                          *)

\* The caller's call has returned and the call it made before was for the
\* same db_name, whose entry was not evicted in between.
SecondCall(me) ==
    /\ me.pc = "Returned"
    /\ me.prev # None
    /\ ~me.prev.evicted

\* C11: two get_dataset_engine calls for the same db_name, one after the
\* other from one caller and with no eviction of its entry in between, return
\* the same engine, and the second call builds none.
C11_SecondCallSamePool ==
    \A t \in Threads :
        SecondCall(callers[t]) =>
            /\ callers[t].got = callers[t].prev.got
            /\ callers[t].made = None
            /\ created[callers[t].db_name] = callers[t].prev.created

C11_Witness ==
    /\ SecondCall(callers["t1"])
    /\ callers["t1"].got = callers["t1"].prev.got
    /\ callers["t1"].got \in CachedEngines
    /\ created[callers["t1"].db_name] = 1
    /\ Len(cache) > 1

\* C12: after every get_dataset_engine call the cache holds at most
\* CacheMaxSize entries and at most one per db_name, and a call that stores a
\* further db_name in a full cache evicts exactly the entry that was returned
\* least recently.
C12_BoundedLRU ==
    [][ /\ Len(cache') <= CacheMaxSize
        /\ \A i, j \in 1..Len(cache') : cache'[i].key = cache'[j].key => i = j
        /\ \A k \in Keys(cache) \ Keys(cache') :
              Len(cache) = CacheMaxSize /\ k = Head(recency)
        /\ (Len(cache) = CacheMaxSize /\ Keys(cache') \ Keys(cache) # {})
              => Keys(cache) \ Keys(cache') = {Head(recency)} ]_vars

\* An entry other than the one stored first has been evicted, the one stored
\* first having been returned again before.
C12_Witness ==
    /\ callers["t1"].pc = "Returned"
    /\ Len(cache) = CacheMaxSize
    /\ 1 \in Keys(cache)
    /\ created[1] = 1
    /\ \E k \in DatasetNames : k > 1 /\ created[k] > 0 /\ k \notin Keys(cache)

IsEngineFor(e, db) == ~IsFault(e) /\ e # None /\ e.db = db

\* The call has run the function body and returned, and the server did not
\* answer at any step of it.
ReturnedWhileDown(me) == me.pc = "Returned" /\ me.down

\* C13 as stated: a get_dataset_engine call made while the server does not
\* answer fails, returning no engine and leaving the cache without an entry
\* for its db_name.
C13_UnreachableFails ==
    \A t \in Threads :
        ReturnedWhileDown(callers[t]) =>
            /\ ~IsEngineFor(callers[t].got, callers[t].db_name)
            /\ callers[t].db_name \notin Keys(cache)

\* C13 amended: get_dataset_engine returns and caches an engine also while the
\* server does not answer; the failure is raised by the statement the caller
\* then runs, and it is not cached: the cache holds engines only, and the next
\* call for the db_name returns the cached engine without building another.
C13_FailsAtStatementNotCached ==
    /\ \A i \in 1..Len(cache) : IsEngineFor(cache[i].engine, cache[i].key)
    /\ \A t \in Threads :
          /\ callers[t].pc \in {"Returned", "Queried"}
                => IsEngineFor(callers[t].got, callers[t].db_name)
          /\ ReturnedWhileDown(callers[t])
                => callers[t].got \in CachedEngines
          /\ (SecondCall(callers[t]) /\ IsFault(callers[t].prev.outcome))
                => callers[t].got = callers[t].prev.got /\ callers[t].made = None

\* A statement failed on an engine built while the server did not answer; the
\* next call returned that engine again and a statement then succeeded on it.
C13_Witness ==
    /\ callers["t1"].pc = "Queried"
    /\ ~IsFault(callers["t1"].outcome)
    /\ callers["t1"].prev # None
    /\ IsFault(callers["t1"].prev.outcome)
    /\ callers["t1"].prev.got = callers["t1"].got
    /\ created[callers["t1"].db_name] = 1

\* Two threads called get_dataset_engine for the same db_name while it was
\* not cached, both ran the function body, both have returned, and the entry
\* of the db_name has not been evicted since.
RaceOver ==
    /\ \A t \in Threads : callers[t].pc = "Returned" /\ callers[t].made # None
    /\ callers["t1"].db_name = callers["t2"].db_name
    /\ \A t \in Threads : ~callers[t].evicted

\* C14: after concurrent get_dataset_engine calls for the same db_name that
\* was not cached, the cache holds exactly one entry for that db_name and
\* every caller holds the cached engine: the engine of the thread that lost
\* the race is discarded.
C14_LoserDiscarded ==
    RaceOver =>
        /\ Cardinality({i \in 1..Len(cache) : cache[i].key = callers["t1"].db_name}) = 1
        /\ \A t \in Threads : callers[t].got \in CachedEngines

----------------------------------------------------------------------------
(* src/utils/llm_client.py                                                 *)
(*                                                                         *)
(* A Python str is a sequence of atoms: a blank [k |-> "ws"], a line break *)
(* [k |-> "nl"], a character [k |-> "ch", c |-> ..], a run of three        *)
(* backticks with the language tag that follows it [k |-> "ticks"], the    *)
(* text of one JSON document [k |-> "doc", v |-> its value], or one of the *)
(* two lines of a JSON document [k |-> "part"].  A JSON or Python value is *)
(* a record tagged by its type in field t.                                 *)

Ws == [k |-> "ws"]

Nl == [k |-> "nl"]

Ch(c) == [k |-> "ch", c |-> c]

Ticks(lang) == [k |-> "ticks", lang |-> lang]

Doc(v) == [k |-> "doc", v |-> v]

\* The i-th of the two lines of a JSON document written over two lines.
DocPart(v, i) == [k |-> "part", v |-> v, i |-> i]

TwoLines(v) == <<DocPart(v, 1), Nl, DocPart(v, 2)>>

Chars(cs) == [i \in 1..Len(cs) |-> Ch(cs[i])]

\* The blanks put before and after a text.
Pads == {[i \in 1..n |-> Ws] : n \in 0..MaxPad}

Padded(core) == {l \o core \o r : l \in Pads, r \in Pads}

IsSpace(a) == a.k \in {"ws", "nl"}

RECURSIVE lstrip(_)
lstrip(s) == IF s # <<>> /\ IsSpace(Head(s)) THEN lstrip(Tail(s)) ELSE s

RECURSIVE rstrip(_)
rstrip(s) == IF s # <<>> /\ IsSpace(s[Len(s)]) THEN rstrip(SubSeq(s, 1, Len(s) - 1)) ELSE s

\* str.strip()
strip(s) == rstrip(lstrip(s))

\* Values: None, str, int, float (v + frac/10), a non-empty list, a dict.
PyNone == [t |-> "null"]

PyStr(s) == [t |-> "str", v |-> s]

PyInt(n) == [t |-> "int", v |-> n]

PyFloat(n, f) == [t |-> "float", v |-> n, frac |-> f]

PyList == [t |-> "list"]

PyDict(fields) == [t |-> "dict", v |-> fields]

\* Truth value of a Python value, as `not x` and `x or y` take it.
Truthy(x) ==
    CASE x.t = "null" -> FALSE
      [] x.t = "str" -> x.v # <<>>
      [] x.t = "int" -> x.v # 0
      [] x.t = "float" -> ~(x.v = 0 /\ x.frac = 0)
      [] OTHER -> TRUE

\* x or y
Or(x, y) == IF Truthy(x) THEN x ELSE y

\* dict.get(key, default)
Get(obj, key, default) == IF key \in DOMAIN obj.v THEN obj.v[key] ELSE default

DigitChars == <<"0", "1", "2", "3", "4", "5", "6", "7", "8", "9">>

IsDigit(a) == a.k = "ch" /\ \E i \in 1..10 : DigitChars[i] = a.c

DigitVal(a) == (CHOOSE i \in 1..10 : DigitChars[i] = a.c) - 1

RECURSIVE NumberOf(_)
NumberOf(s) ==
    IF s = <<>> THEN 0
    ELSE 10 * NumberOf(SubSeq(s, 1, Len(s) - 1)) + DigitVal(s[Len(s)])

RECURSIVE Digits(_)
Digits(n) ==
    IF n < 10 THEN <<Ch(DigitChars[n + 1])>>
    ELSE Digits(n \div 10) \o <<Ch(DigitChars[(n % 10) + 1])>>

\* str(x), for the values a model's JSON can hold in a field.
str(x) ==
    CASE x.t = "str" -> x.v
      [] x.t = "int" -> Digits(x.v)
      [] x.t = "float" -> Digits(x.v) \o <<Ch(".")>> \o Digits(x.frac)
      [] x.t = "null" -> Chars(<<"N", "o", "n", "e">>)
      [] OTHER -> Chars(<<"[", "1", "]">>)

\* int(x): the integer, or the exception it raises.
int(x) ==
    CASE x.t = "int" -> x
      [] x.t = "float" -> PyInt(x.v)
      [] x.t = "str" ->
            IF strip(x.v) # <<>> /\ \A i \in 1..Len(strip(x.v)) : IsDigit(strip(x.v)[i])
            THEN PyInt(NumberOf(strip(x.v)))
            ELSE Fault("ValueError")
      [] OTHER -> Fault("TypeError")

\* class LLMError(Exception), raised with a message.
LLMError(m) == [raised |-> "LLMError", msg |-> m]

IsLLMError(o) == IsFault(o) /\ o.raised = "LLMError"

MsgNotConfigured == "LLM API is not configured"
MsgRequestFailed == "request to the LLM API failed"
MsgBadShape == "unexpected format of the LLM response"
MsgNotJson == "failed to parse the JSON the LLM returned"
MsgNotObject == "the JSON the LLM returned is not an object"
MsgIncomplete == "the question the LLM returned is incomplete"
MsgEmptyUserSql == "the student's SQL is empty, no explanation possible"
MsgEmptyMessage == "the administrator's message must not be empty"

\* What the LLM service does with a request: the client is not configured,
\* the request fails (connection, timeout, HTTP status), the body of the
\* response is not JSON, the JSON lacks choices[0].message.content, or it
\* carries a content.
ServiceKinds == {"unconfigured", "request_exception", "not_json_body", "bad_shape", "content"}

\* Mutant: every failure is reported as a completion that is not JSON.
_call_llm_Uniform(svc) ==
    CASE svc.kind = "unconfigured" -> LLMError(MsgNotJson)
      [] svc.kind = "request_exception" -> LLMError(MsgNotJson)
      [] svc.kind = "not_json_body" -> Fault("JSONDecodeError")
      [] svc.kind = "bad_shape" -> LLMError(MsgNotJson)
      [] OTHER -> svc.content

_call_llm(svc) ==
    CASE svc.kind = "unconfigured" -> LLMError(MsgNotConfigured)
      [] svc.kind = "request_exception" -> LLMError(MsgRequestFailed)
      [] svc.kind = "not_json_body" -> Fault("JSONDecodeError")
      [] svc.kind = "bad_shape" -> LLMError(MsgBadShape)
      [] OTHER -> svc.content

\* Whether _call_llm sends its request.
Posts(svc) == svc.kind # "unconfigured"

RECURSIVE splitlines(_)
\* str.splitlines()
splitlines(s) ==
    IF s = <<>> THEN <<>>
    ELSE IF \E i \in 1..Len(s) : s[i].k = "nl"
         THEN LET i == CHOOSE i \in 1..Len(s) :
                           s[i].k = "nl" /\ \A j \in 1..(i - 1) : s[j].k # "nl"
              IN  <<SubSeq(s, 1, i - 1)>> \o splitlines(SubSeq(s, i + 1, Len(s)))
         ELSE <<s>>

RECURSIVE join(_)
\* "\n".join(lines)
join(lines) ==
    IF lines = <<>> THEN <<>>
    ELSE IF Len(lines) = 1 THEN lines[1]
    ELSE lines[1] \o <<Nl>> \o join(Tail(lines))

\* text.startswith("```")
StartsWithTicks(s) == s # <<>> /\ s[1].k = "ticks"

_strip_code_fence(text) ==
    IF StartsWithTicks(strip(text)) /\ Len(splitlines(strip(text))) >= 3
    THEN strip(join(SubSeq(splitlines(strip(text)), 2, Len(splitlines(strip(text))) - 1)))
    ELSE strip(text)

\* The text is one JSON document, on one line or on its two lines, with
\* white space around it at most.
IsJson(text) ==
    \/ Len(strip(text)) = 1 /\ strip(text)[1].k = "doc"
    \/ /\ Len(strip(text)) = 3
       /\ strip(text)[1].k = "part"
       /\ strip(text) = TwoLines(strip(text)[1].v)

\* json.loads(text): the value of the document, or the exception.
json_loads(text) ==
    IF IsJson(text) THEN strip(text)[1].v ELSE Fault("JSONDecodeError")

\* Mutant: a JSON value that is not an object is returned as the question.
generate_sql_question_from_schema_AnyJson(svc) ==
    LET content == _call_llm(svc)
    IN  IF IsFault(content) THEN content
        ELSE IF content.t # "str" THEN Fault("AttributeError")
        ELSE LET obj == json_loads(_strip_code_fence(content.v))
             IN  IF IsFault(obj) THEN LLMError(MsgNotJson)
                 ELSE obj

\* What the function returns (a dict) or raises, given what the service does.
generate_sql_question_from_schema(svc) ==
    LET content == _call_llm(svc)
    IN  IF IsFault(content) THEN content
        ELSE IF content.t # "str" THEN Fault("AttributeError")
        ELSE LET obj == json_loads(_strip_code_fence(content.v))
             IN  IF IsFault(obj) THEN LLMError(MsgNotJson)
                 ELSE IF obj.t # "dict" THEN LLMError(MsgNotObject)
                 ELSE IF \/ ~Truthy(Get(obj, "title", PyNone))
                         \/ ~Truthy(Get(obj, "standard_sql", PyNone))
                      THEN LLMError(MsgIncomplete)
                      ELSE obj

\* What admin_llm_chat returns (a str) or raises.
admin_llm_chat(message, svc) ==
    IF ~Truthy(PyStr(strip(Or(message, PyStr(<<>>)).v)))
    THEN LLMError(MsgEmptyMessage)
    ELSE LET content == _call_llm(svc)
         IN  IF IsFault(content) THEN content
             ELSE IF content.t # "str" THEN Fault("AttributeError")
             ELSE PyStr(strip(content.v))

\* Whether admin_llm_chat sends a request to the service.
ChatPosts(message, svc) ==
    Truthy(PyStr(strip(Or(message, PyStr(<<>>)).v))) /\ Posts(svc)

\* Mutant: the service is asked also when the statement is empty.
explain_sql_answer_NoGuard(user_sql, svc) ==
    LET content == _call_llm(svc)
    IN  IF IsFault(content) THEN content
        ELSE IF content.t # "str" THEN Fault("AttributeError")
        ELSE PyStr(strip(content.v))

\* What explain_sql_answer returns (a str) or raises.
explain_sql_answer(user_sql, svc) ==
    IF ~Truthy(PyStr(strip(Or(user_sql, PyStr(<<>>)).v)))
    THEN LLMError(MsgEmptyUserSql)
    ELSE LET content == _call_llm(svc)
         IN  IF IsFault(content) THEN content
             ELSE IF content.t # "str" THEN Fault("AttributeError")
             ELSE PyStr(strip(content.v))

\* Whether explain_sql_answer sends a request to the service.
ExplainPosts(user_sql, svc) ==
    Truthy(PyStr(strip(Or(user_sql, PyStr(<<>>)).v))) /\ Posts(svc)

----------------------------------------------------------------------------
(* The completions the LLM service can send, and the requests.             *)

Absent == [t |-> "absent"]

FieldNames == {"title", "standard_sql", "difficulty", "score"}

\* The JSON object with the given fields, a field of value Absent left out.
Obj(title, standard_sql, difficulty, score) ==
    LET val == [f \in FieldNames |->
                   CASE f = "title" -> title
                     [] f = "standard_sql" -> standard_sql
                     [] f = "difficulty" -> difficulty
                     [] OTHER -> score]
    IN  PyDict([f \in {g \in FieldNames : val[g].t # "absent"} |-> val[f]])

TitleText == Chars(<<"T">>)
SqlText == Chars(<<"S">>)
HardText == Chars(<<"H">>)
EasyText == Chars(<<"E">>)
MediumText == Chars(<<"M", "e", "d", "i", "u", "m">>)
Prose == Chars(<<"x">>)

Texts(core) == {PyStr(p) : p \in Padded(core)}

TitleValues == {Absent, PyNone, PyInt(5)} \cup Texts(<<>>) \cup Texts(TitleText)

SqlValues == {Absent} \cup Texts(<<>>) \cup Texts(SqlText)

DifficultyValues == {Absent, PyNone} \cup Texts(<<>>) \cup Texts(HardText)

ScoreValues == {Absent, PyNone, PyInt(0), PyInt(5), PyFloat(7, 5), PyList,
                PyStr(<<>>), PyStr(Chars(<<"1", "5">>)), PyStr(Prose)}

\* JSON documents: objects that vary title and standard_sql, objects that
\* vary difficulty and score, and values that are not objects.
Docs ==
    {Obj(t, q, PyStr(HardText), PyInt(5)) : t \in TitleValues, q \in SqlValues}
    \cup {Obj(PyStr(TitleText), PyStr(SqlText), d, c) : d \in DifficultyValues, c \in ScoreValues}
    \cup {PyList, PyInt(5), PyNone, PyStr(TitleText)}

Fenced(body) == <<Ticks("json"), Nl>> \o body \o <<Nl, Ticks("")>>

\* The content of a completion: a document bare or in a code fence, and, for
\* one document, with white space around it, written over two lines (bare, in
\* a fence, in a fence that is not closed), in a fence that is not closed,
\* in a fence followed by prose, after a line of prose; a fence around
\* nothing; or no document.
Contents ==
    {<<Doc(v)>> : v \in Docs}
    \cup {Fenced(<<Doc(v)>>) : v \in Docs}
    \cup Padded(Fenced(<<Doc(Obj(PyStr(TitleText), PyStr(SqlText), Absent, Absent))>>))
    \cup {TwoLines(Obj(PyStr(TitleText), PyStr(SqlText), Absent, Absent)),
          Fenced(TwoLines(Obj(PyStr(TitleText), PyStr(SqlText), Absent, Absent))),
          <<Ticks("json"), Nl>> \o TwoLines(Obj(PyStr(TitleText), PyStr(SqlText), Absent, Absent)),
          <<Ticks("json"), Nl, Ticks("")>>}
    \cup {<<Ticks("json"), Nl, Doc(Obj(PyStr(TitleText), PyStr(SqlText), Absent, Absent))>>,
          <<Ticks("json"), Nl, Doc(Obj(PyStr(TitleText), PyStr(SqlText), Absent, Absent)), Nl>> \o Prose,
          Prose \o <<Nl, Doc(Obj(PyStr(TitleText), PyStr(SqlText), Absent, Absent))>>,
          Prose, Fenced(Prose), <<>>}
    \cup Padded(Prose)

ServiceBehaviours ==
    {[kind |-> k] : k \in ServiceKinds \ {"content"}}
    \cup {[kind |-> "content", content |-> PyStr(c)] : c \in Contents}
    \cup {[kind |-> "content", content |-> PyNone]}

\* The difficulty argument of a generation request.
RequestedDifficulties == {PyNone} \cup Texts(<<>>) \cup Texts(EasyText)

\* The user_sql argument of explain_sql_answer.
UserSqls == {PyNone} \cup Texts(<<>>) \cup Texts(SqlText)

\* The message argument of admin_llm_chat.
Messages == {PyNone, PyStr(<<>>), PyStr(Prose)}

Routes ==
    {[name |-> n, difficulty |-> d] :
        n \in {"api_question_generate", "api_admin_llm_generate_question"},
        d \in RequestedDifficulties}
    \cup {[name |-> "explain_sql_answer", user_sql |-> u] : u \in UserSqls}
    \cup {[name |-> "admin_llm_chat", message |-> m] : m \in Messages}

----------------------------------------------------------------------------
(* src/app.py: the handlers that call the LLM, one request after the other. *)
(* The dataset of the request exists and its schema text is at hand.        *)

MsgGenerateFailed == "calling the LLM to generate a question failed"
MsgFetchFailed == "fetching a question failed"
MsgNoId == "the question was written, but its id could not be obtained"

\* Mutant: the title is stored as the model wrote it.
title_Raw(obj) == str(Get(obj, "title", PyStr(<<>>)))

\* title = str(q_obj.get("title", "")).strip()
title(obj) == strip(str(Get(obj, "title", PyStr(<<>>))))

\* standard_sql = str(q_obj.get("standard_sql", "")).strip()
standard_sql(obj) == strip(str(Get(obj, "standard_sql", PyStr(<<>>))))

\* diff = str(q_obj.get("difficulty") or difficulty or "Medium").strip()
diff(obj, difficulty) ==
    strip(str(Or(Or(Get(obj, "difficulty", PyNone), difficulty), PyStr(MediumText))))

\* score = int(q_obj.get("score") or 10), and 10 when int raises
score(obj) ==
    IF IsFault(int(Or(Get(obj, "score", PyNone), PyInt(10))))
    THEN PyInt(10)
    ELSE int(Or(Get(obj, "score", PyNone), PyInt(10)))

ErrorResponse(code, m) == [code |-> code, status |-> "error", msg |-> m]

\* f"{prefix}: {exc}": the message of a response that quotes an exception.
Quoting(prefix, exc) == <<prefix, exc.msg>>

SuccessResponse(data) == [code |-> 200, status |-> "success", data |-> data]

\* An exception leaves the view function: the web framework answers 500.
Unhandled(exc) == [code |-> 500, status |-> "unhandled", raised |-> exc.raised]

\* The row the INSERT INTO llm_calls statements write; error_message is
\* [text |-> the message] or None.
LLMCallRecord(difficulty, status, error_message) ==
    [difficulty |-> difficulty, status |-> status, error_message |-> error_message]

InitLLM ==
    /\ cache = <<>>
    /\ created = [db \in DbNames |-> 0]
    /\ JudgeIdle
    /\ RegistryIdle
    /\ LLMIdle
    /\ ExamIdle

\* A request arrives at one of the handlers.
Request ==
    /\ hpc \in {"Idle", "Done"}
    /\ \E r \in Routes : route' = r
    /\ hpc' = "Calling"
    /\ q_obj' = None
    /\ err_msg' = None
    /\ llm_calls' = <<>>
    /\ questions' = <<>>
    /\ response' = None
    /\ posts' = <<>>
    /\ UNCHANGED <<cache, created, judgeVars, registryVars, examVars>>

\* Mutant: title and standard_sql are not checked before the INSERT.
QuestionGenerate_Unchecked ==
    /\ hpc = "Calling"
    /\ route.name = "api_question_generate"
    /\ \E svc \in ServiceBehaviours :
          LET q == generate_sql_question_from_schema(svc)
          IN  /\ q_obj' = q
              /\ posts' = IF Posts(svc) THEN Append(posts, svc) ELSE posts
              /\ IF IsLLMError(q)
                 THEN /\ err_msg' = q.msg
                      /\ hpc' = "LoggingError"
                      /\ UNCHANGED response
                 ELSE IF IsFault(q) \/ q.t # "dict"
                 THEN /\ response' = ErrorResponse(500, MsgFetchFailed)
                      /\ hpc' = "Done"
                      /\ UNCHANGED err_msg
                 ELSE /\ hpc' = "Persisting"
                      /\ UNCHANGED <<err_msg, response>>
    /\ UNCHANGED <<route, llm_calls, questions>>
    /\ UNCHANGED <<cache, created, judgeVars, registryVars, examVars>>

\* api_question_generate with source=llm, from the call of
\* generate_sql_question_from_schema to the check of title and standard_sql.
\* An exception other than LLMError, q_obj.get on a value without get
\* included, is caught by the handler's outermost except.
QuestionGenerate ==
    /\ hpc = "Calling"
    /\ route.name = "api_question_generate"
    /\ \E svc \in ServiceBehaviours :
          LET q == generate_sql_question_from_schema(svc)
          IN  /\ q_obj' = q
              /\ posts' = IF Posts(svc) THEN Append(posts, svc) ELSE posts
              /\ IF IsLLMError(q)
                 THEN /\ err_msg' = q.msg
                      /\ hpc' = "LoggingError"
                      /\ UNCHANGED response
                 ELSE IF IsFault(q) \/ q.t # "dict"
                 THEN /\ response' = ErrorResponse(500, MsgFetchFailed)
                      /\ hpc' = "Done"
                      /\ UNCHANGED err_msg
                 ELSE IF title(q) = <<>> \/ standard_sql(q) = <<>>
                 THEN /\ err_msg' = MsgIncomplete
                      /\ hpc' = "LoggingError"
                      /\ UNCHANGED response
                 ELSE /\ hpc' = "Persisting"
                      /\ UNCHANGED <<err_msg, response>>
    /\ UNCHANGED <<route, llm_calls, questions>>
    /\ UNCHANGED <<cache, created, judgeVars, registryVars, examVars>>

\* The failure is written to llm_calls; a failure of that write is ignored.
LogError ==
    /\ hpc = "LoggingError"
    /\ \E written \in BOOLEAN :
          llm_calls' = IF written
                       THEN Append(llm_calls,
                                LLMCallRecord(IF IsFault(q_obj) THEN route.difficulty
                                              ELSE PyStr(diff(q_obj, route.difficulty)),
                                              "error", [text |-> err_msg]))
                       ELSE llm_calls
    /\ response' = ErrorResponse(500, IF IsFault(q_obj)
                                      THEN Quoting(MsgGenerateFailed, q_obj)
                                      ELSE err_msg)
    /\ hpc' = "Done"
    /\ UNCHANGED <<route, q_obj, err_msg, questions, posts>>
    /\ UNCHANGED <<cache, created, judgeVars, registryVars, examVars>>

\* INSERT INTO questions: the row is written and its id obtained, or the
\* statement raises and the transaction is rolled back, or no id is obtained.
Persist ==
    /\ hpc = "Persisting"
    /\ \E o \in {"written", "raises", "no_id"} :
          CASE o = "written" ->
                  /\ questions' = Append(questions,
                         [title |-> title(q_obj), standard_sql |-> standard_sql(q_obj),
                          difficulty |-> diff(q_obj, route.difficulty),
                          score |-> score(q_obj), source |-> "llm"])
                  /\ hpc' = "LoggingSuccess"
                  /\ UNCHANGED <<llm_calls, response>>
            [] o = "raises" ->
                  /\ questions' = <<>>
                  /\ llm_calls' = <<>>
                  /\ response' = ErrorResponse(500, MsgFetchFailed)
                  /\ hpc' = "Done"
            [] OTHER ->
                  /\ questions' = Append(questions,
                         [title |-> title(q_obj), standard_sql |-> standard_sql(q_obj),
                          difficulty |-> diff(q_obj, route.difficulty),
                          score |-> score(q_obj), source |-> "llm"])
                  /\ response' = ErrorResponse(500, MsgNoId)
                  /\ hpc' = "Done"
                  /\ UNCHANGED llm_calls
    /\ UNCHANGED <<route, q_obj, err_msg, posts>>
    /\ UNCHANGED <<cache, created, judgeVars, registryVars, examVars>>

\* The success is written to llm_calls; a failure of that write is ignored.
LogSuccess ==
    /\ hpc = "LoggingSuccess"
    /\ \E written \in BOOLEAN :
          llm_calls' = IF written
                       THEN Append(llm_calls,
                                LLMCallRecord(PyStr(diff(q_obj, route.difficulty)),
                                              "success", None))
                       ELSE llm_calls
    /\ response' = SuccessResponse([title |-> title(q_obj),
                                    difficulty |-> diff(q_obj, route.difficulty),
                                    score |-> score(q_obj), source |-> "llm"])
    /\ hpc' = "Done"
    /\ UNCHANGED <<route, q_obj, err_msg, questions, posts>>
    /\ UNCHANGED <<cache, created, judgeVars, registryVars, examVars>>

\* api_admin_llm_generate_question, from the call of
\* generate_sql_question_from_schema to its response.
AdminGenerate ==
    /\ hpc = "Calling"
    /\ route.name = "api_admin_llm_generate_question"
    /\ \E svc \in ServiceBehaviours :
          LET q == generate_sql_question_from_schema(svc)
          IN  /\ q_obj' = q
              /\ posts' = IF Posts(svc) THEN Append(posts, svc) ELSE posts
              /\ response' = IF IsLLMError(q)
                             THEN ErrorResponse(500, Quoting(MsgGenerateFailed, q))
                             ELSE IF IsFault(q) THEN Unhandled(q)
                             ELSE SuccessResponse([question |-> q])
    /\ hpc' = "Done"
    /\ UNCHANGED <<route, err_msg, llm_calls, questions>>
    /\ UNCHANGED <<cache, created, judgeVars, registryVars, examVars>>

\* explain_sql_answer is called.
Explain ==
    /\ hpc = "Calling"
    /\ route.name = "explain_sql_answer"
    /\ \E svc \in ServiceBehaviours :
          /\ q_obj' = explain_sql_answer(route.user_sql, svc)
          /\ posts' = IF ExplainPosts(route.user_sql, svc) THEN Append(posts, svc) ELSE posts
    /\ hpc' = "Done"
    /\ UNCHANGED <<route, err_msg, llm_calls, questions, response>>
    /\ UNCHANGED <<cache, created, judgeVars, registryVars, examVars>>

\* admin_llm_chat is called.
AdminChat ==
    /\ hpc = "Calling"
    /\ route.name = "admin_llm_chat"
    /\ \E svc \in ServiceBehaviours :
          /\ q_obj' = admin_llm_chat(route.message, svc)
          /\ posts' = IF ChatPosts(route.message, svc) THEN Append(posts, svc) ELSE posts
    /\ hpc' = "Done"
    /\ UNCHANGED <<route, err_msg, llm_calls, questions, response>>
    /\ UNCHANGED <<cache, created, judgeVars, registryVars, examVars>>

NextLLM ==
    \/ Request
    \/ QuestionGenerate
    \/ LogError
    \/ Persist
    \/ LogSuccess
    \/ AdminGenerate
    \/ Explain
    \/ AdminChat

SpecLLM == InitLLM /\ [][NextLLM]_vars

----------------------------------------------------------------------------
(* The question synthesis pipeline and explain_sql_answer (SpecLLM).        *)

GenerationRoutes == {"api_question_generate", "api_admin_llm_generate_question"}

\* A generation request is answered, and it has called the LLM service.
Generated == hpc = "Done" /\ route.name \in GenerationRoutes /\ posts # <<>>

\* The service answered the request with a content that is a str.
Completed == posts # <<>> /\ posts[1].kind = "content" /\ posts[1].content.t = "str"

\* The JSON value a completion carries, bare or in a closed code fence, read
\* off the completion itself; None when the completion is anything else.
ResponseValue(text) ==
    LET s == strip(text)
    IN  IF Len(s) = 1 /\ s[1].k = "doc" THEN s[1].v
        ELSE IF /\ Len(s) = 5
                /\ s[1].k = "ticks" /\ s[2].k = "nl" /\ s[3].k = "doc"
                /\ s[4].k = "nl" /\ s[5].k = "ticks"
             THEN s[3].v
             ELSE None

\* The completion of the answered request carries a JSON object.
ObjectCompleted ==
    /\ Generated
    /\ Completed
    /\ ResponseValue(posts[1].content.v) # None
    /\ ResponseValue(posts[1].content.v).t = "dict"

ModelObject == ResponseValue(posts[1].content.v)

\* A draft was accepted: a row written to questions, or returned to the
\* administrator.
Accepted ==
    /\ Generated
    /\ IF route.name = "api_question_generate"
       THEN questions # <<>>
       ELSE response.status = "success"

\* C15: every generation request that called the LLM service has written
\* exactly one row to llm_calls when it is answered, of status success when
\* it succeeded and of status error, with the error message, when it failed.
C15_OneRecordPerInvocation ==
    Generated =>
        /\ Len(llm_calls) = 1
        /\ llm_calls[1].status = (IF response.status = "success" THEN "success" ELSE "error")
        /\ response.status # "success" => llm_calls[1].error_message # None

\* The field is absent from the object, or a str that is empty once trimmed.
Blank(obj, f) ==
    \/ f \notin DOMAIN obj.v
    \/ obj.v[f].t = "str" /\ strip(obj.v[f].v) = <<>>

\* The completion of Scenario D.
ScenarioD ==
    posts[1].content.v =
        Fenced(<<Doc(PyDict([title |-> PyStr(<<>>), standard_sql |-> PyStr(SqlText)]))>>)

\* C16: a completion whose JSON object has a title or a standard_sql that is
\* absent, empty or blank is rejected by both generation handlers and no
\* draft results; for the completion of Scenario D one row of status error
\* is written to llm_calls.
C16_IncompleteRejected ==
    (ObjectCompleted /\ (Blank(ModelObject, "title") \/ Blank(ModelObject, "standard_sql")))
        => /\ response.status = "error"
           /\ questions = <<>>
           /\ ScenarioD => (Len(llm_calls) = 1 /\ llm_calls[1].status = "error")

\* The text json.loads is given for the completion of the answered request.
FenceStripped == _strip_code_fence(posts[1].content.v)

\* What the answered request got from generate_sql_question_from_schema is
\* the LLMError of the given message, and no draft results.
FailedWith(m) ==
    /\ q_obj = LLMError(m)
    /\ response.status = "error"
    /\ questions = <<>>

\* C17: when the fence-stripped completion does not parse as JSON,
\* generate_sql_question_from_schema raises the LLMError of a parse failure,
\* when it parses to a value that is not an object, the LLMError of a value
\* that is not an object; in neither case does a draft result.
C17_MalformedRejected ==
    (Generated /\ Completed) =>
        /\ ~IsJson(FenceStripped) => FailedWith(MsgNotJson)
        /\ (IsJson(FenceStripped) /\ strip(FenceStripped)[1].v.t # "dict")
              => FailedWith(MsgNotObject)

\* A fenced JSON list was rejected as not an object.
C17_Witness ==
    /\ Generated
    /\ Completed
    /\ posts[1].content.v = Fenced(<<Doc(PyList)>>)
    /\ FailedWith(MsgNotObject)

\* The difficulty and the score of the accepted draft.
DraftDifficulty ==
    IF route.name = "api_question_generate"
    THEN PyStr(questions[1].difficulty)
    ELSE Get(response.data.question, "difficulty", Absent)

DraftScore ==
    IF route.name = "api_question_generate"
    THEN questions[1].score
    ELSE Get(response.data.question, "score", Absent)

\* C18: the difficulty of an accepted draft is the model's when the model
\* gave one, else the requested one, else "Medium"; its score is the model's
\* when the model gave a number, else 10.
C18_Defaults ==
    (Accepted /\ ObjectCompleted) =>
        /\ DraftDifficulty =
              (IF "difficulty" \in DOMAIN ModelObject.v THEN ModelObject.v["difficulty"]
               ELSE IF route.difficulty.t = "str" THEN route.difficulty
               ELSE PyStr(MediumText))
        /\ DraftScore =
              (IF "score" \in DOMAIN ModelObject.v /\ ModelObject.v["score"].t \in {"int", "float"}
               THEN ModelObject.v["score"]
               ELSE PyInt(10))

\* The completion carries an object of exactly the four fields, title and
\* standard_sql being strings that are not empty.
FourFields ==
    /\ ObjectCompleted
    /\ DOMAIN ModelObject.v = FieldNames
    /\ ModelObject.v["title"].t = "str" /\ ModelObject.v["title"].v # <<>>
    /\ ModelObject.v["standard_sql"].t = "str" /\ ModelObject.v["standard_sql"].v # <<>>

\* C19 as stated: the title and the standard_sql of the draft that results
\* from a completion of exactly the four fields are those of the completion,
\* character for character.
C19_RoundTripVerbatim ==
    (Accepted /\ FourFields) =>
        IF route.name = "api_question_generate"
        THEN /\ questions[1].title = ModelObject.v["title"].v
             /\ questions[1].standard_sql = ModelObject.v["standard_sql"].v
        ELSE /\ response.data.question.v["title"] = ModelObject.v["title"]
             /\ response.data.question.v["standard_sql"] = ModelObject.v["standard_sql"]

\* C19 amended: the draft api_question_generate writes has the title and the
\* standard_sql of the completion without the white space before and after
\* them; the draft api_admin_llm_generate_question returns has them
\* character for character.
C19_RoundTripTrimmed ==
    (Accepted /\ FourFields) =>
        IF route.name = "api_question_generate"
        THEN /\ questions[1].title = strip(ModelObject.v["title"].v)
             /\ questions[1].standard_sql = strip(ModelObject.v["standard_sql"].v)
        ELSE /\ response.data.question.v["title"] = ModelObject.v["title"]
             /\ response.data.question.v["standard_sql"] = ModelObject.v["standard_sql"]

\* A draft was written whose title lost the blanks around it.
C19_Witness ==
    /\ Accepted
    /\ FourFields
    /\ route.name = "api_question_generate"
    /\ ModelObject.v["title"].v = <<Ws>> \o TitleText \o <<Ws>>
    /\ questions[1].title = TitleText
    /\ hpc = "Done"
    /\ response.status = "success"

\* explain_sql_answer has returned or raised.
Explained == hpc = "Done" /\ route.name = "explain_sql_answer"

\* The user_sql of the call is None, empty or blank.
BlankUserSql == route.user_sql.t = "null" \/ strip(route.user_sql.v) = <<>>

\* C20 as stated: explain_sql_answer raises without a request to the LLM
\* service when user_sql is empty or blank; otherwise it returns the content
\* of the completion character for character, whatever that content is.
C20_ExplainVerbatim ==
    Explained =>
        /\ BlankUserSql => (q_obj = LLMError(MsgEmptyUserSql) /\ posts = <<>>)
        /\ (~BlankUserSql /\ Completed) => q_obj = posts[1].content

\* C20 amended: explain_sql_answer raises without a request to the LLM
\* service when user_sql is empty or blank; otherwise it returns the content
\* of the completion without the white space before and after it, whatever
\* that content is, JSON or not.
C20_ExplainTrimmed ==
    Explained =>
        /\ BlankUserSql => (q_obj = LLMError(MsgEmptyUserSql) /\ posts = <<>>)
        /\ (~BlankUserSql /\ Completed) => q_obj = PyStr(strip(posts[1].content.v))

\* A completion of prose with blanks around it was returned without them.
C20_Witness ==
    /\ Explained
    /\ ~BlankUserSql
    /\ Completed
    /\ posts[1].content.v = <<Ws>> \o Prose \o <<Ws>>
    /\ q_obj = PyStr(Prose)

----------------------------------------------------------------------------
(* Failures of the completion service and of the model's output (SpecLLM).  *)

\* A generation request is answered.
GenerationAnswered == hpc = "Done" /\ route.name \in GenerationRoutes

\* The completion service was not configured or could not be reached.
ServiceUnavailable ==
    /\ GenerationAnswered
    /\ (posts = <<>> \/ posts[1].kind = "request_exception")

\* The completions that break the output contract: what
\* generate_sql_question_from_schema raises for a text it is given.
ContractFailures ==
    {generate_sql_question_from_schema(b) :
        b \in {c \in ServiceBehaviours :
                  /\ c.kind = "content"
                  /\ c.content.t = "str"
                  /\ IsFault(generate_sql_question_from_schema(c))}}

\* C22 as stated: when the completion service is not configured or cannot be
\* reached, the error a generation request ends in is of another kind
\* (exception class) than every error of an output that breaks the contract.
C22_DistinctKind ==
    ServiceUnavailable => \A f \in ContractFailures : q_obj.raised # f.raised

\* C22 amended: when the completion service is not configured or cannot be
\* reached, the request ends in an LLMError and the response 500 of status
\* error, as for an output that breaks the contract; only the message the
\* response quotes differs from that of every contract failure.
C22_SameKindOtherMessage ==
    ServiceUnavailable =>
        /\ IsLLMError(q_obj)
        /\ \A f \in ContractFailures : q_obj.raised = f.raised /\ q_obj.msg # f.msg
        /\ q_obj.msg # MsgIncomplete
        /\ response.code = 500
        /\ response.status = "error"
        /\ response.msg = <<MsgGenerateFailed, q_obj.msg>>

\* The administrator's generation request failed to reach the service.
C22_Witness ==
    /\ ServiceUnavailable
    /\ route.name = "api_admin_llm_generate_question"
    /\ posts # <<>>
    /\ q_obj = LLMError(MsgRequestFailed)

\* A call of generate_sql_question_from_schema, explain_sql_answer or
\* admin_llm_chat is over.
CallOver ==
    /\ hpc = "Done"
    /\ route.name \in GenerationRoutes \cup {"explain_sql_answer", "admin_llm_chat"}

\* C23: whatever goes wrong in a call of the completion service, the three
\* functions raise LLMError and nothing else, and no handler lets an
\* exception through to the web framework.
C23_OnlyLLMError ==
    CallOver =>
        /\ IsFault(q_obj) => IsLLMError(q_obj)
        /\ response # None => response.status # "unhandled"

\* The lines of a text.
Lines(s) == {splitlines(s)[i] : i \in 1..Len(splitlines(s))}

\* The text starts with a fence line and ends with a closing fence line.
ClosedFence(s) ==
    /\ Len(splitlines(s)) >= 2
    /\ StartsWithTicks(splitlines(s)[1])
    /\ splitlines(s)[Len(splitlines(s))] = <<Ticks("")>>

\* What the fence of a fenced text encloses.
Inner(s) == join(SubSeq(splitlines(s), 2, Len(splitlines(s)) - 1))

\* The line holds JSON.
PayloadLine(l) == \E i \in 1..Len(l) : l[i].k \in {"doc", "part"}

\* C26: of a completion that, trimmed, is a closed fence, _strip_code_fence
\* returns what the fence encloses, trimmed; of one that does not start with
\* a fence, the completion trimmed; and every line of the completion that
\* holds JSON is a line of what it returns.
C26_FenceOnly ==
    (Generated /\ Completed) =>
        /\ ClosedFence(strip(posts[1].content.v))
              => FenceStripped = strip(Inner(strip(posts[1].content.v)))
        /\ ~StartsWithTicks(strip(posts[1].content.v))
              => FenceStripped = strip(posts[1].content.v)
        /\ \A l \in Lines(strip(posts[1].content.v)) :
              PayloadLine(l) => l \in Lines(FenceStripped)

\* The request has inserted a success row into llm_calls.
SuccessLogged == \E i \in 1..Len(llm_calls) : llm_calls[i].status = "success"

\* C30: api_question_generate inserts a row into questions, of source llm,
\* only when generate_sql_question_from_schema returned an object whose title
\* and standard_sql are not blank; a request whose completion call failed or
\* whose output was rejected inserts none; and a success row is in llm_calls
\* only when the request inserted the question.
C30_InsertOnlyAccepted ==
    (route # None /\ route.name = "api_question_generate") =>
        /\ questions # <<>> =>
              /\ q_obj # None
              /\ ~IsFault(q_obj)
              /\ q_obj.t = "dict"
              /\ ~Blank(q_obj, "title")
              /\ ~Blank(q_obj, "standard_sql")
              /\ Len(questions) = 1
              /\ questions[1].source = "llm"
              /\ questions[1].title # <<>>
              /\ questions[1].standard_sql # <<>>
        /\ (q_obj # None /\ (IsFault(q_obj) \/ Blank(q_obj, "title") \/ Blank(q_obj, "standard_sql")))
              => questions = <<>>
        /\ SuccessLogged => (questions # <<>> /\ Len(llm_calls) = 1)

\* A generated question was inserted and the success logged.
C30_Witness ==
    /\ hpc = "Done"
    /\ route.name = "api_question_generate"
    /\ Len(questions) = 1
    /\ questions[1].title = TitleText
    /\ SuccessLogged
    /\ response.status = "success"

----------------------------------------------------------------------------
(* src/app.py: the handlers of the exam over the system store, one request  *)
(* after the other. judge_sql is taken by what it returns.                  *)

MsgMissing == "question_id and user_sql are required"
MsgNotInteger == "question_id must be an integer"
MsgNoQuestion == "question not found"
MsgNoDatasetId == "the question has no dataset_id"
MsgNoDataset == "no usable dataset"
MsgSubmitFailed == "judging or writing the record failed"
MsgNotOpen == "the answer of this question is not open"
MsgSubmitFirst == "submit an answer of your own first"
MsgAnswerFailed == "fetching the answer failed"

DescText == Chars(<<"D">>)

\* The rows of the table questions, by id.
QuestionTable ==
    <<[title |-> PyStr(TitleText), standard_sql |-> PyStr(SqlText),
       dataset_id |-> PyInt(1), score |-> PyInt(10), allow_view_answer |-> PyInt(1)],
      [title |-> PyStr(TitleText), standard_sql |-> PyStr(SqlText),
       dataset_id |-> PyInt(3), score |-> PyNone, allow_view_answer |-> PyInt(0)],
      [title |-> PyStr(TitleText), standard_sql |-> PyStr(SqlText),
       dataset_id |-> PyNone, score |-> PyInt(10), allow_view_answer |-> PyInt(1)],
      [title |-> PyStr(TitleText), standard_sql |-> PyStr(SqlText),
       dataset_id |-> PyInt(2), score |-> PyInt(10), allow_view_answer |-> PyInt(1)],
      [title |-> PyStr(TitleText), standard_sql |-> PyStr(SqlText),
       dataset_id |-> PyInt(4), score |-> PyInt(10), allow_view_answer |-> PyInt(1)]>>

\* The rows of the table datasets, by id.
DatasetTable ==
    <<[key |-> "student_scores", db_name |-> PyStr(Chars(<<"a">>)), is_active |-> 1,
       schema_desc |-> PyStr(<<Ws>> \o DescText \o <<Ws>>)],
      [key |-> "retired", db_name |-> PyStr(Chars(<<"b">>)), is_active |-> 0,
       schema_desc |-> PyStr(DescText)],
      [key |-> "orders", db_name |-> PyStr(Chars(<<"c">>)), is_active |-> 1,
       schema_desc |-> PyNone]>>

\* The users, and the total_score each of them starts with.
UserIds == {1, 2}

InitialTotal == [u \in UserIds |-> IF u = 1 THEN 0 ELSE 5]

InitialStore ==
    [questions |-> QuestionTable,
     datasets  |-> DatasetTable,
     records   |-> EmptyBag,
     users     |-> InitialTotal]

\* session.get("user_id"): None when nobody is logged in.
SessionUsers == {PyNone} \cup {PyInt(u) : u \in UserIds}

\* What judge_sql returns.
JudgeResults ==
    {VerdictResult(eq, Preview(Frame(<<"id">>, <<>>))) : eq \in BOOLEAN}
    \cup {ErrorResult("(1064) You have an error in your SQL syntax")}

\* time.perf_counter() - start_ts
ExecTimes == {3}

\* The JSON document of a request, as Python reads it.
JsonBody(question_id, user_sql) ==
    PyDict([k \in {f \in {"question_id", "user_sql"} :
                     IF f = "question_id" THEN question_id # Absent
                                          ELSE user_sql # Absent}
              |-> IF k = "question_id" THEN question_id ELSE user_sql])

QuestionIds ==
    {Absent, PyList, PyInt(0), PyStr(Prose), PyStr(Chars(<<"2">>))}
    \cup {PyInt(n) : n \in 1..(Len(QuestionTable) + 1)}

SubmittedSqls == {Absent, PyStr(<<>>), PyStr(<<Ws>>), PyStr(SqlText), PyInt(5)}

\* request.get_json(silent=True): None when the body is not JSON. The
\* third question has no dataset.
Bodies ==
    {PyNone, PyList}
    \cup {JsonBody(q, PyStr(SqlText)) : q \in QuestionIds}
    \cup {JsonBody(PyInt(3), u) : u \in SubmittedSqls}
    \cup {JsonBody(Absent, u) : u \in {Absent, PyInt(5)}}

\* The questions the tables let judge_sql run for.
Judgeable == {PyInt(1), PyStr(Chars(<<"2">>))}

\* The submissions: the body and the user of the session. The first user
\* sends every body, the anonymous one those that can be judged; the second
\* user submits nothing.
Submissions ==
    {[body |-> b, user_id |-> PyInt(1)] : b \in Bodies}
    \cup {[body |-> JsonBody(q, PyStr(SqlText)), user_id |-> PyNone] : q \in Judgeable}

\* What a handler leaves behind: the store, the response and the statements
\* and calls it has issued.
Reply(db, resp, issued) == [store |-> db, response |-> resp, io |-> issued]

\* Mutant: an inactive dataset is used as well.
ActiveDataset_AnyState(db, dataset_id) == dataset_id \in DOMAIN db.datasets

\* SELECT db_name FROM datasets WHERE id = %s AND is_active = 1 finds a row.
ActiveDataset(db, dataset_id) ==
    /\ dataset_id \in DOMAIN db.datasets
    /\ db.datasets[dataset_id].is_active = 1

\* Mutant: the message of the judge is not kept.
Verdict_NoLog(judge_result, question_score) ==
    CASE judge_result.status = "success" ->
            [result |-> "Pass",
             score |-> IF Truthy(question_score) THEN question_score.v ELSE 0,
             error_log |-> None]
      [] judge_result.status = "fail" ->
            [result |-> "Fail", score |-> 0, error_log |-> None]
      [] OTHER ->
            [result |-> "Error", score |-> 0, error_log |-> None]

\* result_str, final_score and error_log of api_judge_submit.
Verdict(judge_result, question_score) ==
    CASE judge_result.status = "success" ->
            [result |-> "Pass",
             score |-> IF Truthy(question_score) THEN question_score.v ELSE 0,
             error_log |-> None]
      [] judge_result.status = "fail" ->
            [result |-> "Fail", score |-> 0, error_log |-> None]
      [] OTHER ->
            [result |-> "Error", score |-> 0,
             error_log |-> [text |-> judge_result.msg]]

\* The row INSERT INTO records writes.
RecordRow(user_id, question_id, user_sql, verdict, exec_time, dataset_id) ==
    [user_id     |-> IF Truthy(user_id) THEN user_id.v ELSE 0,
     question_id |-> question_id,
     user_sql    |-> user_sql,
     result      |-> verdict.result,
     score       |-> verdict.score,
     exec_time   |-> exec_time,
     error_log   |-> verdict.error_log,
     dataset_id  |-> dataset_id]

\* INSERT INTO records
Inserted(db, row) == [db EXCEPT !.records = @ (+) SetToBag({row})]

\* UPDATE users SET total_score = total_score + %s WHERE id = %s
Credited(db, user_id, final_score) ==
    [db EXCEPT !.users =
        [u \in DOMAIN @ |-> IF u = user_id THEN @[u] + final_score ELSE @[u]]]

\* Mutant: what the transaction has written stays.
RolledBack_Kept(before, written) == written

\* An exception leaves the block of engine.begin(): what the transaction
\* has written is rolled back.
RolledBack(before, written) == before

SubmitData(verdict, msg, exec_time, total) ==
    [result |-> verdict.result, msg |-> msg, score |-> verdict.score,
     execution_time |-> exec_time, total_score |-> total]

\* The transaction of api_judge_submit from the call of judge_sql on: what
\* it can leave behind, as any of its statements may raise.
Judged(db, qid, user_sql, user_id, judge_result, exec_time) ==
    LET failed == ErrorResponse(500, MsgSubmitFailed)
        judged == <<"SELECT questions", "SELECT datasets", "judge_sql", "INSERT records">>
        verdict == Verdict(judge_result, db.questions[qid].score)
        row == RecordRow(user_id, qid, user_sql, verdict, exec_time,
                         db.questions[qid].dataset_id.v)
        db1 == Inserted(db, row)
    IN  {Reply(db, failed, judged)}
        \cup
        IF Truthy(user_id) /\ verdict.score # 0
        THEN LET db2 == Credited(db1, user_id.v, verdict.score)
             IN  {Reply(RolledBack(db, db1), failed, judged \o <<"UPDATE users">>),
                  Reply(RolledBack(db, db2), failed,
                        judged \o <<"UPDATE users", "SELECT users">>),
                  Reply(db2,
                        SuccessResponse(SubmitData(verdict, judge_result.msg, exec_time,
                                                   PyInt(db2.users[user_id.v]))),
                        judged \o <<"UPDATE users", "SELECT users">>)}
        ELSE {Reply(db1,
                    SuccessResponse(SubmitData(verdict, judge_result.msg, exec_time, PyNone)),
                    judged)}

\* The transaction of api_judge_submit: what it can leave behind.
SubmitTransaction(db, qid, user_sql, user_id) ==
    LET failed == ErrorResponse(500, MsgSubmitFailed)
        lookup == <<"SELECT questions">>
        lookup2 == <<"SELECT questions", "SELECT datasets">>
    IN  {Reply(db, failed, lookup)}
        \cup
        IF qid \notin DOMAIN db.questions
        THEN {Reply(db, ErrorResponse(404, MsgNoQuestion), lookup)}
        ELSE IF db.questions[qid].dataset_id = PyNone
        THEN {Reply(db, ErrorResponse(500, MsgNoDatasetId), lookup)}
        ELSE {Reply(db, failed, lookup2)}
             \cup
             IF ~ActiveDataset(db, db.questions[qid].dataset_id.v)
             THEN {Reply(db, ErrorResponse(500, MsgNoDataset), lookup2)}
             ELSE UNION {Judged(db, qid, user_sql, user_id, judge_result, exec_time) :
                            judge_result \in JudgeResults, exec_time \in ExecTimes}

\* api_judge_submit: what it can leave behind.
api_judge_submit(db, body, user_id) ==
    LET data == Or(body, PyDict(<<>>))
    IN  IF data.t # "dict" THEN {Reply(db, Unhandled(Fault("AttributeError")), <<>>)}
        ELSE IF ~Truthy(Get(data, "question_id", PyNone))
                \/ ~Truthy(Get(data, "user_sql", PyNone))
        THEN {Reply(db, ErrorResponse(400, MsgMissing), <<>>)}
        ELSE IF IsFault(int(Get(data, "question_id", PyNone)))
        THEN {Reply(db, ErrorResponse(400, MsgNotInteger), <<>>)}
        ELSE SubmitTransaction(db, int(Get(data, "question_id", PyNone)).v,
                               Get(data, "user_sql", PyNone), user_id)

\* Mutant: the records of every user count.
submitted_cnt_AnyUser(db, qid, user_id) ==
    BagCardinality([r \in {x \in BagToSet(db.records) : x.question_id = qid}
                      |-> CopiesIn(r, db.records)])

\* SELECT COUNT(*) FROM records WHERE question_id = %s AND user_id = %s
submitted_cnt(db, qid, user_id) ==
    BagCardinality([r \in {x \in BagToSet(db.records) :
                              x.question_id = qid /\ x.user_id = user_id}
                      |-> CopiesIn(r, db.records)])

\* args.get("question_id"): the text of the parameter, or None. The first
\* question has its answer open, the second has not, the last is not there.
QueryIds ==
    {PyNone, PyStr(Prose)}
    \cup {PyStr(Digits(n)) : n \in {1, 2, Len(QuestionTable) + 1}}

\* api_question_answer: what it can leave behind.
api_question_answer(db, qid_raw, user_id) ==
    LET failed == ErrorResponse(500, MsgAnswerFailed)
        uid == IF Truthy(user_id) THEN user_id.v ELSE 0
        lookup == <<"ALTER questions", "SELECT questions">>
        counted == <<"ALTER questions", "SELECT questions", "SELECT records">>
    IN  IF IsFault(int(qid_raw)) THEN {Reply(db, ErrorResponse(400, MsgNotInteger), <<>>)}
        ELSE {Reply(db, failed, lookup)}
             \cup
             IF int(qid_raw).v \notin DOMAIN db.questions
             THEN {Reply(db, ErrorResponse(404, MsgNoQuestion), lookup)}
             ELSE IF ~Truthy(db.questions[int(qid_raw).v].allow_view_answer)
             THEN {Reply(db, ErrorResponse(403, MsgNotOpen), lookup)}
             ELSE {Reply(db, failed, counted)}
                  \cup
                  IF submitted_cnt(db, int(qid_raw).v, uid) <= 0
                  THEN {Reply(db, ErrorResponse(403, MsgSubmitFirst), counted)}
                  ELSE {Reply(db,
                              SuccessResponse([standard_sql |->
                                  db.questions[int(qid_raw).v].standard_sql]),
                              counted)}

\* The system store as it is installed, and no request yet.
InitExam ==
    /\ cache = <<>>
    /\ created = [db \in DbNames |-> 0]
    /\ JudgeIdle
    /\ RegistryIdle
    /\ LLMIdle
    /\ store = InitialStore
    /\ io = <<>>
    /\ prior = InitialStore

\* A submission is answered.
JudgeSubmit ==
    /\ hpc \in {"Idle", "Done"}
    /\ BagCardinality(store.records) < MaxRecords
    /\ \E s \in Submissions :
       \E r \in api_judge_submit(store, s.body, s.user_id) :
              /\ route' = [name |-> "api_judge_submit", body |-> s.body,
                           user_id |-> s.user_id]
              /\ store' = r.store
              /\ prior' = store
              /\ response' = r.response
              /\ io' = r.io
    /\ hpc' = "Done"
    /\ q_obj' = None
    /\ posts' = <<>>
    /\ UNCHANGED <<err_msg, llm_calls, questions>>
    /\ UNCHANGED <<cache, created, judgeVars, registryVars>>

\* A request for the answer of a question is answered.
QuestionAnswer ==
    /\ hpc \in {"Idle", "Done"}
    /\ \E qid_raw \in QueryIds, user_id \in SessionUsers :
       \E r \in api_question_answer(store, qid_raw, user_id) :
              /\ route' = [name |-> "api_question_answer", question_id |-> qid_raw,
                           user_id |-> user_id]
              /\ store' = r.store
              /\ prior' = store
              /\ response' = r.response
              /\ io' = r.io
    /\ hpc' = "Done"
    /\ q_obj' = None
    /\ posts' = <<>>
    /\ UNCHANGED <<err_msg, llm_calls, questions>>
    /\ UNCHANGED <<cache, created, judgeVars, registryVars>>

----------------------------------------------------------------------------
(* src/app.py: the schema text of a dataset, for the prompts of the         *)
(* generation handlers and of api_judge_explain.                            *)

MsgUnknownDataset == "dataset not found"
MsgSchemaFailed == "reading the table structure of the dataset failed"
MsgContextFailed == "preparing the context of the LLM failed"
MsgExplainContextFailed == "preparing the context of the explanation failed"
MsgExplainFailed == "calling the LLM to explain failed"

\* Lines of a schema text: "表 {table_name}:" and "  - {column_name} ({data_type})".
TableLine(table_name) == [k |-> "table", name |-> table_name]
ColumnLine(column_name, data_type) == [k |-> "column", name |-> column_name, type |-> data_type]

\* （表结构略，仅根据 SQL 本身判断也可以）
SchemaOmitted == <<[k |-> "omitted"]>>

RECURSIVE schema_lines(_, _)
\* The text the handlers build from the rows of information_schema.columns.
schema_lines(rows, current_table) ==
    IF rows = <<>> THEN <<>>
    ELSE (IF current_table = None \/ current_table # [name |-> rows[1].table_name]
          THEN (IF current_table = None THEN <<>> ELSE <<Nl>>)
               \o <<TableLine(rows[1].table_name), Nl>>
          ELSE <<Nl>>)
         \o <<ColumnLine(rows[1].column_name, rows[1].data_type)>>
         \o schema_lines(Tail(rows), [name |-> rows[1].table_name])

\* What the query on information_schema.columns gives: it raises, or
\* fetchall() returns rows.
Fetched(rows) == [rows |-> rows]

IntrospectionResults ==
    {Fault("OperationalError"),
     Fetched(<<>>),
     Fetched(<<[table_name |-> "t", column_name |-> "id", data_type |-> "int"],
               [table_name |-> "t", column_name |-> "name", data_type |-> "varchar"],
               [table_name |-> "u", column_name |-> "id", data_type |-> "int"]>>)}

\* COALESCE(schema_desc, '')
Coalesced(schema_desc) == IF schema_desc = PyNone THEN PyStr(<<>>) ELSE schema_desc

\* Mutant: the catalog is read whether or not there is a description.
Introspects_Always(schema_desc) == TRUE

\* schema_text = schema_desc or ""; if not schema_text: ...
Introspects(schema_desc) == ~Truthy(Or(schema_desc, PyStr(<<>>)))

\* The schema lines of the prompt of generate_sql_question_from_schema.
generate_schema(schema_text) == schema_text.v

\* The schema lines of the prompt of explain_sql_answer.
explain_schema(schema_text) ==
    IF strip(Or(schema_text, PyStr(<<>>)).v) = <<>> THEN SchemaOmitted
    ELSE strip(Or(schema_text, PyStr(<<>>)).v)

\* The request _call_llm posts: what the service will do with it, and the
\* schema lines of its prompt.
Sent(svc, schema) ==
    [f \in DOMAIN svc \cup {"schema"} |-> IF f = "schema" THEN schema ELSE svc[f]]

\* The key of the dataset a generation request names.
DatasetKeys == {"student_scores", "retired", "orders", "nowhere"}

\* SELECT ... FROM datasets WHERE `key` = %s AND is_active = 1
ActiveByKey(db, dataset_key) ==
    {i \in DOMAIN db.datasets :
        db.datasets[i].key = dataset_key /\ db.datasets[i].is_active = 1}

\* What the handler has done when it comes to its call of the service, or
\* the response it has given before.
Context(resp, issued, schema_text) ==
    [response |-> resp, io |-> issued, schema_text |-> schema_text]

\* api_question_generate with source = "llm" and
\* api_admin_llm_generate_question, up to the call of
\* generate_sql_question_from_schema: what they can come to.
generation_context(db, name, dataset_key) ==
    LET lookup == <<"SELECT datasets">>
        ready == IF name = "api_question_generate"
                 THEN <<"SELECT datasets", "ALTER questions", "ALTER questions">>
                 ELSE lookup
        failed == ErrorResponse(500, IF name = "api_question_generate"
                                     THEN MsgFetchFailed ELSE MsgContextFailed)
    IN  {Context(failed, lookup, None)}
        \cup
        IF ActiveByKey(db, dataset_key) = {}
        THEN {Context(ErrorResponse(400, MsgUnknownDataset), lookup, None)}
        ELSE LET ds_row == db.datasets[CHOOSE i \in ActiveByKey(db, dataset_key) : TRUE]
             IN  IF Introspects(Coalesced(ds_row.schema_desc))
                 THEN {IF IsFault(fetched)
                       THEN Context(ErrorResponse(500, MsgSchemaFailed),
                                    ready \o <<"information_schema", "raised">>, None)
                       ELSE Context(None, ready \o <<"information_schema">>,
                                    PyStr(schema_lines(fetched.rows, None)))
                         : fetched \in IntrospectionResults}
                 ELSE {Context(None, ready, Or(Coalesced(ds_row.schema_desc), PyStr(<<>>)))}

\* The services api_judge_explain can meet; explain_sql_answer does not
\* look into the text of a completion.
ExplainServices ==
    {[kind |-> "unconfigured"],
     [kind |-> "content", content |-> PyStr(Prose)],
     [kind |-> "content", content |-> PyNone]}

\* The bodies of the requests for an explanation. The first question has
\* a dataset with a description, the second one without, the third none,
\* the last is not there.
Explanations ==
    {PyList}
    \cup {JsonBody(q, PyStr(SqlText)) :
            q \in {Absent, PyStr(Prose)}
                  \cup {PyInt(n) : n \in {1, 2, 3, Len(QuestionTable) + 1}}}
    \cup {JsonBody(PyInt(1), u) : u \in SubmittedSqls}
    \cup {JsonBody(Absent, PyInt(5))}

\* What api_judge_explain leaves behind: the response, the statements and
\* calls it has issued, the requests it has posted to the service, and what
\* explain_sql_answer returned or raised.
Explained_(resp, issued, posted, feedback) ==
    [response |-> resp, io |-> issued, posts |-> posted, q_obj |-> feedback]

\* api_judge_explain from the call of explain_sql_answer on.
Explaining(user_sql, schema_text, issued) ==
    {LET feedback == explain_sql_answer(user_sql, svc)
     IN  Explained_(IF IsLLMError(feedback)
                    THEN ErrorResponse(500, Quoting(MsgExplainFailed, feedback))
                    ELSE IF IsFault(feedback) THEN Unhandled(feedback)
                    ELSE SuccessResponse([feedback |-> feedback]),
                    issued,
                    IF ExplainPosts(user_sql, svc)
                    THEN <<Sent(svc, explain_schema(Or(schema_text, PyStr(<<>>))))>>
                    ELSE <<>>,
                    feedback)
       : svc \in ExplainServices}

\* api_judge_explain from the lookup of the question on.
ExplainContext(db, qid, user_sql) ==
    LET lookup == <<"SELECT questions">>
        joined == qid \in DOMAIN db.questions
                  /\ db.questions[qid].dataset_id # PyNone
                  /\ db.questions[qid].dataset_id.v \in DOMAIN db.datasets
        db_name == IF joined
                           THEN db.datasets[db.questions[qid].dataset_id.v].db_name
                           ELSE PyNone
        schema_desc == IF joined
                       THEN Coalesced(db.datasets[db.questions[qid].dataset_id.v].schema_desc)
                       ELSE PyStr(<<>>)
    IN  {Explained_(ErrorResponse(500, MsgExplainContextFailed), lookup, <<>>, None)}
        \cup
        IF qid \notin DOMAIN db.questions
        THEN {Explained_(ErrorResponse(404, MsgNoQuestion), lookup, <<>>, None)}
        ELSE IF Introspects(schema_desc) /\ Truthy(db_name)
        THEN UNION {IF IsFault(fetched)
                    THEN Explaining(user_sql, PyStr(<<>>),
                                    lookup \o <<"information_schema", "raised">>)
                    ELSE Explaining(user_sql, PyStr(schema_lines(fetched.rows, None)),
                                    lookup \o <<"information_schema">>)
                      : fetched \in IntrospectionResults}
        ELSE Explaining(user_sql, Or(schema_desc, PyStr(<<>>)), lookup)

\* api_judge_explain: what it can leave behind.
api_judge_explain(db, body) ==
    LET data == Or(body, PyDict(<<>>))
    IN  IF data.t # "dict"
        THEN {Explained_(Unhandled(Fault("AttributeError")), <<>>, <<>>, None)}
        ELSE IF Or(Get(data, "user_sql", PyNone), PyStr(<<>>)).t # "str"
        THEN {Explained_(Unhandled(Fault("AttributeError")), <<>>, <<>>, None)}
        ELSE
        LET question_id == Get(data, "question_id", PyNone)
            user_sql == PyStr(strip(Or(Get(data, "user_sql", PyNone), PyStr(<<>>)).v))
        IN  IF ~Truthy(question_id) \/ ~Truthy(user_sql)
            THEN {Explained_(ErrorResponse(400, MsgMissing), <<>>, <<>>, None)}
            ELSE IF IsFault(int(question_id))
            THEN {Explained_(ErrorResponse(400, MsgNotInteger), <<>>, <<>>, None)}
            ELSE ExplainContext(db, int(question_id).v, user_sql)

\* A request for an explanation is answered.
JudgeExplain ==
    /\ hpc \in {"Idle", "Done"}
    /\ \E body \in Explanations :
       \E r \in api_judge_explain(store, body) :
              /\ route' = [name |-> "api_judge_explain", body |-> body]
              /\ response' = r.response
              /\ io' = r.io
              /\ posts' = r.posts
              /\ q_obj' = r.q_obj
    /\ hpc' = "Done"
    /\ prior' = store
    /\ UNCHANGED <<err_msg, llm_calls, questions, store>>
    /\ UNCHANGED <<cache, created, judgeVars, registryVars>>

\* A generation request comes to its call of the service, or is answered
\* before.
GenerateContext ==
    /\ hpc \in {"Idle", "Done"}
    /\ \E name \in {"api_question_generate", "api_admin_llm_generate_question"},
          dataset_key \in DatasetKeys :
       \E c \in generation_context(store, name, dataset_key) :
              /\ route' = [name |-> name, difficulty |-> PyNone,
                           dataset_key |-> dataset_key, schema_text |-> c.schema_text]
              /\ response' = c.response
              /\ io' = c.io
              /\ hpc' = IF c.response = None THEN "Calling" ELSE "Done"
    /\ q_obj' = None
    /\ err_msg' = None
    /\ llm_calls' = <<>>
    /\ questions' = <<>>
    /\ posts' = <<>>
    /\ prior' = store
    /\ UNCHANGED store
    /\ UNCHANGED <<cache, created, judgeVars, registryVars>>

NextExam ==
    \/ JudgeSubmit
    \/ QuestionAnswer
    \/ JudgeExplain

SpecExam == InitExam /\ [][NextExam]_vars

NextContext ==
    \/ GenerateContext
    \/ QuestionGenerate
    \/ LogError
    \/ Persist
    \/ LogSuccess
    \/ AdminGenerate
    \/ JudgeExplain

SpecContext == InitExam /\ [][NextContext]_vars

----------------------------------------------------------------------------
(* Submissions, records, totals and the answer endpoint (SpecExam).         *)

\* The request just answered is a submission that passed the checks of its
\* parameters; SubmittedId is the id of its question.
Submitted ==
    /\ hpc = "Done"
    /\ route.name = "api_judge_submit"
    /\ Or(route.body, PyDict(<<>>)).t = "dict"
    /\ Truthy(Get(Or(route.body, PyDict(<<>>)), "question_id", PyNone))
    /\ Truthy(Get(Or(route.body, PyDict(<<>>)), "user_sql", PyNone))
    /\ ~IsFault(int(Get(Or(route.body, PyDict(<<>>)), "question_id", PyNone)))

SubmittedId == int(Get(Or(route.body, PyDict(<<>>)), "question_id", PyNone)).v

\* The ids of the datasets that are there and active.
Usable == {d \in DOMAIN store.datasets : store.datasets[d].is_active = 1}

\* The question of the submission is missing, or has no usable dataset.
NoDatasetFor(qid) ==
    \/ qid \notin DOMAIN store.questions
    \/ store.questions[qid].dataset_id = PyNone
    \/ store.questions[qid].dataset_id.v \notin Usable

Issued(statement) == \E i \in 1..Len(io) : io[i] = statement

\* C29: a submission whose question does not exist, has no dataset, or
\* whose dataset is missing or inactive is answered with an error, and the
\* request neither calls judge_sql nor changes the records or the totals.
C29_NoJudgeWithoutDataset ==
    (Submitted /\ NoDatasetFor(SubmittedId))
        => /\ response.status = "error"
           /\ response.code \in {404, 500}
           /\ ~Issued("judge_sql")
           /\ ~Issued("INSERT records")
           /\ store = prior

C29_Witness ==
    /\ Submitted
    /\ SubmittedId \in DOMAIN store.questions
    /\ store.questions[SubmittedId].dataset_id # PyNone
    /\ store.questions[SubmittedId].dataset_id.v \in DOMAIN store.datasets
    /\ store.questions[SubmittedId].dataset_id.v \notin Usable
    /\ response = ErrorResponse(500, MsgNoDataset)
    /\ io = <<"SELECT questions", "SELECT datasets">>

\* The rows the step has added to the table records.
Added(before, after) ==
    {r \in BagToSet(after) : CopiesIn(r, after) > CopiesIn(r, before)}

\* The step adds one row to the records, the one of the verdict the response
\* reports for the submission.
OneRecord(before, after, qid, user_id, resp, question_score) ==
    /\ BagCardinality(after) = BagCardinality(before) + 1
    /\ \E r \in Added(before, after) :
          /\ after = before (+) SetToBag({r})
          /\ r.question_id = qid
          /\ r.user_id = (IF user_id = PyNone THEN 0 ELSE user_id.v)
          /\ r.result = resp.data.result
          /\ r.result \in {"Pass", "Fail", "Error"}
          /\ r.exec_time = resp.data.execution_time
          /\ r.score = resp.data.score
          /\ r.score = (IF r.result = "Pass" THEN question_score ELSE 0)
          /\ r.error_log = (IF r.result = "Error" THEN [text |-> resp.data.msg] ELSE None)

RECURSIVE SumScores(_, _)
SumScores(rows, records) ==
    IF rows = {} THEN 0
    ELSE LET r == CHOOSE x \in rows : TRUE
         IN  r.score * CopiesIn(r, records) + SumScores(rows \ {r}, records)

\* The sum of the scores of the records of a user.
OwnScores(u) ==
    SumScores({r \in BagToSet(store.records) : r.user_id = u}, store.records)

\* C28: the total_score of a user is the initial total plus the sum of the
\* scores of the user's own records, and only Pass records have a score
\* other than 0; a submission that is not a Pass, or is anonymous, leaves
\* every total as it was; a submission adds its record and its credit
\* together, or neither.
C28_TotalIsSumOfRecords ==
    hpc = "Done" =>
       /\ \A u \in UserIds : store.users[u] = InitialTotal[u] + OwnScores(u)
       /\ \A r \in BagToSet(store.records) : r.score # 0 => r.result = "Pass"
       /\ (Submitted /\ (route.user_id = PyNone
                         \/ response.status # "success"
                         \/ response.data.result # "Pass"))
            => store.users = prior.users
       /\ (Submitted /\ store.users # prior.users)
            => /\ BagCardinality(store.records) = BagCardinality(prior.records) + 1
               /\ response.status = "success"
               /\ store.users[route.user_id.v]
                    = prior.users[route.user_id.v] + response.data.score
       /\ (Submitted /\ response.status # "success") => store = prior

C28_Witness ==
    /\ Submitted
    /\ response.status = "success"
    /\ response.data.result = "Pass"
    /\ route.user_id = PyInt(1)
    /\ BagCardinality(store.records) = MaxRecords
    /\ store.users[1] = InitialTotal[1] + 2 * store.questions[1].score.v
    /\ response.data.total_score = PyInt(store.users[1])

\* The request just answered asked for the answer of a question; AskedId is
\* the id of the question, Asker the user id the handler looks up.
Asked ==
    /\ hpc = "Done"
    /\ route.name = "api_question_answer"

Asker == IF route.user_id = PyNone THEN 0 ELSE route.user_id.v

Disclosed == Asked /\ response.status = "success"

\* C27: the answer endpoint returns the standard_sql of a question only when
\* the question has allow_view_answer set and the user id of the request, 0
\* when nobody is logged in, has a record for that question; every other
\* request for an answer gets an error, which holds no standard_sql.
C27_AnswerAfterOwnSubmission ==
    Asked =>
        IF Disclosed
        THEN /\ ~IsFault(int(route.question_id))
             /\ int(route.question_id).v \in DOMAIN store.questions
             /\ store.questions[int(route.question_id).v].allow_view_answer = PyInt(1)
             /\ \E r \in BagToSet(store.records) :
                   /\ r.question_id = int(route.question_id).v
                   /\ r.user_id = Asker
             /\ response.data
                  = [standard_sql |-> store.questions[int(route.question_id).v].standard_sql]
        ELSE /\ response.status = "error"
             /\ DOMAIN response = {"code", "status", "msg"}
             /\ response.code \in {400, 403, 404, 500}

C27_Witness ==
    /\ Disclosed
    /\ route.user_id = PyNone
    /\ \E r \in BagToSet(store.records) : r.user_id = 1
    /\ \A r \in BagToSet(store.records) : r.user_id = 0 => r.result # "Pass"

----------------------------------------------------------------------------
(* Requests with bad parameters (SpecExam) and the schema text of the       *)
(* prompts (SpecContext).                                                   *)

\* A parameter of the JSON document of a request, Absent when the document
\* is no object or does not have it.
Parameter(body, name) ==
    IF body.t = "dict" /\ name \in DOMAIN body.v THEN body.v[name] ELSE Absent

\* The question_id of the document is missing or no number, or its user_sql
\* is missing.
InvalidParameters(body) ==
    \/ Parameter(body, "question_id") = Absent
    \/ IsFault(int(Parameter(body, "question_id")))
    \/ Parameter(body, "user_sql") = Absent
    \/ Parameter(body, "user_sql") = PyStr(<<>>)

\* C21: a submission or a request for an explanation whose question_id is
\* missing or not a number, or whose user_sql is missing, is answered as an
\* invalid request (400), and nothing is read from or written to the system
\* store, no dataset is queried and the LLM service is not called.
C21_InvalidRejectedBeforeIO ==
    (/\ hpc = "Done"
     /\ route.name \in {"api_judge_submit", "api_judge_explain"}
     /\ InvalidParameters(route.body))
        => /\ response.status = "error"
           /\ response.code = 400
           /\ io = <<>>
           /\ posts = <<>>
           /\ store = prior

\* The request is a generation request; GenerationDesc is the cached
\* description of the schema of its dataset, empty when there is none.
Generating == hpc # "Idle" /\ route.name \in GenerationRoutes

GenerationDesc ==
    IF ActiveByKey(store, route.dataset_key) = {} THEN <<>>
    ELSE Coalesced(store.datasets[CHOOSE i \in ActiveByKey(store, route.dataset_key) : TRUE]
                     .schema_desc).v

\* The request just answered asked for an explanation and has looked up its
\* question; ExplanationDesc is the cached description of the schema of the
\* dataset of the question, empty when there is none.
ExplainingQuestion ==
    /\ hpc = "Done"
    /\ route.name = "api_judge_explain"
    /\ Issued("SELECT questions")

ExplanationDesc ==
    LET qid == int(Parameter(route.body, "question_id")).v
    IN  IF /\ qid \in DOMAIN store.questions
           /\ store.questions[qid].dataset_id # PyNone
           /\ store.questions[qid].dataset_id.v \in DOMAIN store.datasets
        THEN Coalesced(store.datasets[store.questions[qid].dataset_id.v].schema_desc).v
        ELSE <<>>

\* C25 as stated: the catalog of a dataset is read only when the dataset has
\* no cached description; with a description, the prompt has it unchanged;
\* when the catalog is read and the read raises, the request is answered
\* with an error and the LLM service is not called.
C25_IntrospectOnlyUncached ==
    /\ Generating =>
          /\ GenerationDesc # <<>> => ~Issued("information_schema")
          /\ (GenerationDesc # <<>> /\ route.schema_text # None)
                => generate_schema(route.schema_text) = GenerationDesc
          /\ Issued("raised")
                => (hpc = "Done" /\ response.status = "error" /\ posts = <<>>)
    /\ ExplainingQuestion =>
          /\ ExplanationDesc # <<>> => ~Issued("information_schema")
          /\ (ExplanationDesc # <<>> /\ posts # <<>>) => posts[1].schema = ExplanationDesc
          /\ Issued("raised") => (response.status = "error" /\ posts = <<>>)

\* C25, amended: the catalog of a dataset is read only when the dataset has
\* no cached description. A generation request puts a cached description
\* into its prompt unchanged, and when its read of the catalog raises it is
\* answered with the error of the schema and the LLM service is not called.
\* A request for an explanation puts a cached description into its prompt
\* without the blanks around it, and when its read of the catalog raises it
\* goes on without a schema: the service is called as with an empty
\* description, and the answer is the one of that call.
C25_IntrospectOnlyUncachedTolerant ==
    /\ Generating =>
          /\ GenerationDesc # <<>> => ~Issued("information_schema")
          /\ (GenerationDesc # <<>> /\ route.schema_text # None)
                => generate_schema(route.schema_text) = GenerationDesc
          /\ Issued("raised")
                => /\ hpc = "Done"
                   /\ response = ErrorResponse(500, MsgSchemaFailed)
                   /\ posts = <<>>
    /\ ExplainingQuestion =>
          /\ ExplanationDesc # <<>> => ~Issued("information_schema")
          /\ (ExplanationDesc # <<>> /\ posts # <<>>)
                => posts[1].schema = strip(ExplanationDesc)
          /\ Issued("raised")
                => /\ ExplanationDesc = <<>>
                   /\ posts # <<>> => posts[1].schema = SchemaOmitted
                   /\ posts = <<>> => q_obj = LLMError(MsgNotConfigured)
                   /\ response.code \in {200, 500}
                   /\ response.status = "error"
                         => response = ErrorResponse(500, Quoting(MsgExplainFailed, q_obj))

C25_Witness ==
    /\ ExplainingQuestion
    /\ Issued("raised")
    /\ posts # <<>>
    /\ posts[1].schema = SchemaOmitted
    /\ response.status = "success"

====
